---------------------------- MODULE Spec2Model ----------------------------
(***************************************************************************)
(* Model of the mesh-generation pipeline of SpineLift's python service:    *)
(* BatchMeshProcessor (core/batch/batch_mesh_processor.py).                *)
(*                                                                         *)
(* Numbers.  Pixel coordinates, areas and most parameters are integers.    *)
(* detail_factor is held in thousandths (0.01 is 10), the epsilon          *)
(* percentage in millionths (0.002 is 2000), epsilon in millionths of a    *)
(* pixel.  Quotients whose exact value matters are rationals <<n, d>>.     *)
(*                                                                         *)
(* Libraries.  OpenCV, PIL and the triangle package are not part of the    *)
(* repository.  What a call into them returns is fixed per behaviour by    *)
(* the variables cv2_approx and tr (the library's answer, chosen in Init), *)
(* or computed from the image description where the answer is plain        *)
(* (contours and areas of axis-aligned rectangles).                        *)
(***************************************************************************)
EXTENDS Integers, Sequences, FiniteSets, TLC

VARIABLES
    fs,            \* the file system: path -> image file description
    supplied,      \* the dictionary given to BatchMeshProcessor(params=...)
    params,        \* self.params
    cv2_approx,    \* how cv2.approxPolyDP answers: "keep", "collapse" or "raise"
    tr,            \* the triangle backend: "unavailable", "ok", "empty", "raise"
    image_paths,   \* argument of process_image_batch
    pc,            \* position of the batch call
    i,             \* loop counter of process_image_batch (1-based, as enumerate(.., 1))
    results,       \* local `results` of process_image_batch
    frame,         \* locals of the running generate_mesh_data call
    gm_out,        \* what the generate_mesh_data call gave back to its caller
    log,           \* records of level WARNING and above, in emission order
    stages,        \* history: per input position, the stages that have started
    outcome,       \* history: per input position, how generate_mesh_data ended
    calls,         \* history of direct calls made by the function harnesses
    processor,     \* MeshService: the shared attribute self.processor
    requests,      \* MeshService: the running calls, their locals and positions
    running,       \* MeshService: the call the event loop is running, 0 when none
    tmp,           \* the temporary files on disk: path -> image file description
    cb,            \* a ProgressCallback object on its own
    posts          \* the posts to callback URLs attempted, in order

\* the state of the mesh service and of the progress callbacks
svc_vars == <<processor, requests, running, tmp, cb, posts>>

vars == <<fs, supplied, params, cv2_approx, tr, image_paths, pc, i, results,
          frame, gm_out, log, stages, outcome, calls, svc_vars>>

-----------------------------------------------------------------------------
(* Bounds of the model *)

\* longest batch given to process_image_batch
MaxBatch == 3

-----------------------------------------------------------------------------
(* Python values *)

None == [kind |-> "None"]
IsNone(x) == x.kind = "None"

\* no mesh service and no progress callback in use
NoService ==
    /\ processor = None
    /\ requests = <<>>
    /\ running = 0
    /\ tmp = <<>>
    /\ cb = None
    /\ posts = <<>>

\* a parameter value: a number, or a value of another type (None, a string)
Num(n) == [num |-> TRUE, v |-> n]
NonNum == [num |-> FALSE, v |-> 0]

Min(a, b) == IF a <= b THEN a ELSE b
Max(a, b) == IF a >= b THEN a ELSE b
Abs(a) == IF a < 0 THEN -a ELSE a

\* np.clip(x, lo, hi)
Clip(x, lo, hi) == IF x < lo THEN lo ELSE IF x > hi THEN hi ELSE x

\* floor of the square root
ISqrt(n) == CHOOSE r \in 0..n : r * r <= n /\ (r + 1) * (r + 1) > n

RECURSIVE SumSeq(_)
SumSeq(s) == IF s = <<>> THEN 0 ELSE Head(s) + SumSeq(Tail(s))

\* the subsequence of s whose elements satisfy Test, order kept
SelectSeqIdx(s, keep) ==
    LET F[k \in 0..Len(s)] ==
            IF k = 0 THEN <<>>
            ELSE IF k \in keep THEN Append(F[k - 1], s[k]) ELSE F[k - 1]
    IN  F[Len(s)]

\* a log record: level, the function that logs, the item it names (<<>> when
\* the message names none), the batch position it names (0 when none), and
\* what the message says
LogRec(level, who, item, idx, msg) ==
    [level |-> level, who |-> who, item |-> item, idx |-> idx, msg |-> msg]


-----------------------------------------------------------------------------
(* The image files.  An image is described by its size and by its opaque   *)
(* regions ("blobs"): separated axis-aligned rectangles of pixels, x0..x1  *)
(* by y0..y1 inclusive, of one alpha value; every other pixel has alpha 0. *)

Blob(x0, y0, x1, y1, alpha) ==
    [x0 |-> x0, y0 |-> y0, x1 |-> x1, y1 |-> y1, alpha |-> alpha]

\* a path string: its directory, and its last component as stem and suffix
Path(dir, stem, suffix) == [dir |-> dir, stem |-> stem, suffix |-> suffix]
\* pathlib's Path(p).name and Path(p).stem
PathName(p) == <<p.stem, p.suffix>>
PathStem(p) == p.stem

NoFile == [exists |-> FALSE, decodable |-> FALSE, w |-> 0, h |-> 0, blobs |-> <<>>]
ImageFile(w, h, blobs) ==
    [exists |-> TRUE, decodable |-> TRUE, w |-> w, h |-> h, blobs |-> blobs]

MissingPath == Path("in", "missing", ".png")
ClearPath == Path("in", "clear", ".png")
RectPath == Path("in", "rect", ".png")
DotPath == Path("in", "dot", ".png")
RectCopyPath == Path("out", "rect", ".png")

Paths == {MissingPath, ClearPath, RectPath, DotPath}

\* the files on disk: a path that is no file, a fully transparent image, an
\* opaque rectangle, and a single opaque pixel
Files ==
    [p \in Paths \cup {RectCopyPath} |->
        CASE p = MissingPath -> NoFile
          [] p = ClearPath -> ImageFile(4, 4, <<>>)
          [] p = RectPath -> ImageFile(6, 8, <<Blob(1, 1, 4, 6, 255)>>)
          [] p = RectCopyPath -> ImageFile(6, 8, <<Blob(1, 1, 4, 6, 255)>>)
          [] p = DotPath -> ImageFile(3, 3, <<Blob(1, 1, 1, 1, 255)>>)]

-----------------------------------------------------------------------------
(* BatchMeshProcessor.__init__ *)

ParamKeys ==
    {"detail_factor", "alpha_threshold", "concave_factor",
     "internal_vertex_density", "blur_kernel_size", "binary_threshold",
     "min_contour_area", "density_scaling_factor", "min_triangle_area"}

DEFAULT_PARAMS ==
    [k \in ParamKeys |->
        CASE k = "detail_factor" -> Num(10)
          [] k = "alpha_threshold" -> Num(10)
          [] k = "concave_factor" -> Num(0)
          [] k = "internal_vertex_density" -> Num(0)
          [] k = "blur_kernel_size" -> Num(1)
          [] k = "binary_threshold" -> Num(128)
          [] k = "min_contour_area" -> Num(10)
          [] k = "density_scaling_factor" -> Num(1000)
          [] k = "min_triangle_area" -> Num(1)]

\* the defaults updated with every supplied key
InitParamsMerged(given) ==
    [k \in ParamKeys \cup DOMAIN given |->
        IF k \in DOMAIN given THEN given[k] ELSE DEFAULT_PARAMS[k]]

\* self.params after construction: the defaults, overridden by the supplied
\* keys that are keys of DEFAULT_PARAMS
InitParams(given) ==
    [k \in ParamKeys |-> IF k \in DOMAIN given THEN given[k] ELSE DEFAULT_PARAMS[k]]

\* the keys __init__ warns about
InvalidKeys(given) == (DOMAIN given) \ ParamKeys

EmptyDict == [k \in {} |-> NonNum]

\* __init__(params): self.params, and the warning about the supplied keys
\* that are no keys of DEFAULT_PARAMS; an empty dict, like None, is falsy
Construct(given) ==
    [params |-> InitParams(given),
     log |-> IF given # EmptyDict /\ InvalidKeys(given) # {}
             THEN <<LogRec("WARNING", "__init__", <<>>, 0, "Ignored invalid parameters")>>
             ELSE <<>>]

-----------------------------------------------------------------------------
(* load_image, create_initial_mask, process_mask_for_contours *)

\* What a stage gives back: a value, or an exception that leaves the stage,
\* and the records it logged.
Returned(val, logged) == [raised |-> FALSE, val |-> val, log |-> logged]
Raised(type, logged) == [raised |-> TRUE, val |-> [kind |-> "Exception", type |-> type], log |-> logged]

\* load_image gives (img, h, w).  PIL's convert('RGBA') gives four channels.
load_image(files, path) ==
    IF ~(path \in DOMAIN files /\ files[path].exists)
    THEN Returned([img |-> None, h |-> 0, w |-> 0],
                  <<LogRec("ERROR", "load_image", PathName(path), 0, "not found")>>)
    ELSE IF files[path].decodable
    THEN Returned([img |-> [kind |-> "ndarray", ndim |-> 3, channels |-> 4,
                            w |-> files[path].w, h |-> files[path].h,
                            blobs |-> files[path].blobs],
                   h |-> files[path].h, w |-> files[path].w], <<>>)
    ELSE Returned([img |-> None, h |-> 0, w |-> 0],
                  <<LogRec("WARNING", "load_image", PathName(path), 0, "PIL failed"),
                    LogRec("ERROR", "load_image", PathName(path), 0, "all methods failed")>>)

\* the number of pixels of a blob
BlobPixels(b) == (b.x1 - b.x0 + 1) * (b.y1 - b.y0 + 1)

\* np.all(mask < t): the blobs and, where a pixel lies outside them, alpha 0
AllBelow(mask, t) ==
    /\ \A k \in 1..Len(mask.blobs) : mask.blobs[k].alpha < t
    /\ (SumSeq([k \in 1..Len(mask.blobs) |-> BlobPixels(mask.blobs[k])]) < mask.w * mask.h
            => 0 < t)

create_initial_mask(p, img, h, w) ==
    IF IsNone(img)
    THEN Returned(None, <<LogRec("WARNING", "create_initial_mask", <<>>, 0, "None image")>>)
    ELSE IF img.ndim = 3 /\ img.channels = 4
    THEN LET mask == [kind |-> "ndarray", dtype |-> "uint8", ndim |-> 2,
                      w |-> img.w, h |-> img.h, blobs |-> img.blobs]
         IN  IF ~p["alpha_threshold"].num
             THEN Raised("TypeError", <<>>)
             ELSE IF AllBelow(mask, p["alpha_threshold"].v)
             THEN Returned(mask, <<LogRec("WARNING", "create_initial_mask", <<>>, 0,
                                          "mostly transparent")>>)
             ELSE Returned(mask, <<>>)
    ELSE Returned([kind |-> "ndarray", dtype |-> "uint8", ndim |-> 2,
                   w |-> w, h |-> h, blobs |-> <<Blob(0, 0, w - 1, h - 1, 255)>>], <<>>)

\* cv2.blur on a blob of one alpha value: the value the box filter leaves at
\* the blob's centre.  A blob at least as wide and high as the kernel keeps
\* its value there; a smaller one is averaged with the transparent
\* surround.  (The softened rim of a blob is not described.)
cv2_blur(mask, k) ==
    [mask EXCEPT !.blobs =
        [n \in 1..Len(mask.blobs) |->
            LET b == mask.blobs[n]
                bw == Min(b.x1 - b.x0 + 1, k)
                bh == Min(b.y1 - b.y0 + 1, k)
            IN  [b EXCEPT !.alpha = (b.alpha * bw * bh) \div (k * k)]]]

\* a threshold that also lets through a value equal to t
cv2_threshold_inclusive(mask, t) ==
    [mask EXCEPT !.blobs =
        [n \in 1..Len(mask.blobs) |->
            [mask.blobs[n] EXCEPT !.alpha = IF mask.blobs[n].alpha >= t THEN 255 ELSE 0]]]

\* cv2.threshold(src, t, 255, THRESH_BINARY): 255 where src > t, else 0
cv2_threshold(mask, t) ==
    [mask EXCEPT !.blobs =
        [n \in 1..Len(mask.blobs) |->
            [mask.blobs[n] EXCEPT !.alpha = IF mask.blobs[n].alpha > t THEN 255 ELSE 0]]]

\* the kernel size after the adjustment to an odd value
KernelSize(k) == IF k > 0 /\ k % 2 = 0 THEN k + 1 ELSE k

process_mask_for_contours(mask, blur_kernel_size_param, binary_threshold_param) ==
    IF IsNone(mask)
    THEN Returned(None, <<LogRec("WARNING", "process_mask_for_contours", <<>>, 0, "None mask")>>)
    ELSE IF ~blur_kernel_size_param.num
    THEN Raised("TypeError", <<>>)
    ELSE LET kernel_size == KernelSize(blur_kernel_size_param.v)
             processed_mask == IF kernel_size > 1 THEN cv2_blur(mask, kernel_size) ELSE mask
         IN  IF ~binary_threshold_param.num
             THEN Raised("TypeError", <<>>)
             ELSE Returned(cv2_threshold(processed_mask,
                                         Clip(binary_threshold_param.v, 0, 255)), <<>>)

-----------------------------------------------------------------------------
(* find_main_contour *)

\* a contour as OpenCV gives it: an int32 array of shape (N, 1, 2)
Contour(pts) == [kind |-> "ndarray", dtype |-> "int32", ndim |-> 3, pts |-> pts]

\* the outline cv2.findContours (CHAIN_APPROX_SIMPLE) traces around one blob
BlobOutline(b) ==
    IF b.x0 = b.x1 /\ b.y0 = b.y1 THEN <<<<b.x0, b.y0>>>>
    ELSE IF b.x0 = b.x1 THEN <<<<b.x0, b.y0>>, <<b.x0, b.y1>>>>
    ELSE IF b.y0 = b.y1 THEN <<<<b.x0, b.y0>>, <<b.x1, b.y0>>>>
    ELSE <<<<b.x0, b.y0>>, <<b.x0, b.y1>>, <<b.x1, b.y1>>, <<b.x1, b.y0>>>>

\* cv2.findContours(mask, RETR_EXTERNAL, ..): one contour per region of
\* non-zero pixels
cv2_findContours(mask) ==
    LET live == SelectSeqIdx(mask.blobs, {k \in 1..Len(mask.blobs) : mask.blobs[k].alpha # 0})
    IN  [k \in 1..Len(live) |-> Contour(BlobOutline(live[k]))]

\* twice cv2.contourArea (the shoelace sum), so that it stays an integer
ContourArea2(pts) ==
    LET n == Len(pts)
        nxt(k) == IF k = n THEN 1 ELSE k + 1
    IN  IF n < 3 THEN 0
        ELSE Abs(SumSeq([k \in 1..n |-> pts[k][1] * pts[nxt(k)][2] - pts[nxt(k)][1] * pts[k][2]]))

\* the first element, whatever its area
FirstContour(cs) == cs[1]

\* max(seq, key=area): the first element of the largest area
MaxByArea(cs) ==
    cs[CHOOSE k \in 1..Len(cs) :
          /\ \A j \in 1..Len(cs) : ContourArea2(cs[j].pts) <= ContourArea2(cs[k].pts)
          /\ \A j \in 1..(k - 1) : ContourArea2(cs[j].pts) < ContourArea2(cs[k].pts)]

find_main_contour(p, binary_mask) ==
    IF IsNone(binary_mask)
    THEN Returned(None, <<LogRec("WARNING", "find_main_contour", <<>>, 0, "None mask")>>)
    ELSE IF binary_mask.dtype # "uint8" \/ binary_mask.ndim # 2
    THEN Returned(None, <<LogRec("ERROR", "find_main_contour", <<>>, 0, "invalid mask format")>>)
    ELSE LET contours == cv2_findContours(binary_mask)
         IN  IF contours = <<>>
             THEN Returned(None, <<LogRec("WARNING", "find_main_contour", <<>>, 0, "no contours")>>)
             ELSE IF ~p["min_contour_area"].num
             THEN Raised("TypeError", <<>>)
             ELSE LET significant_contours ==
                          SelectSeqIdx(contours,
                              {k \in 1..Len(contours) :
                                  ContourArea2(contours[k].pts) >= 2 * p["min_contour_area"].v})
                  IN  IF significant_contours = <<>>
                      THEN Returned(None, <<LogRec("WARNING", "find_main_contour", <<>>, 0,
                                                   "no significant contours")>>)
                      ELSE Returned(MaxByArea(significant_contours), <<>>)

-----------------------------------------------------------------------------
(* simplify_contour *)

\* a rectangle with width and height exchanged
DefaultRectSwapped(w, h) == <<<<0, 0>>, <<h, 0>>, <<h, w>>, <<0, w>>>>

\* default_rect for a w x h image
DefaultRect(w, h) == <<<<0, 0>>, <<w, 0>>, <<w, h>>, <<0, h>>>>

\* cv2.arcLength(pts, True) in whole pixels: the segment lengths of the
\* closed curve, each rounded down (exact for axis-aligned segments); it is
\* 0 exactly when all the points coincide
cv2_arcLength(pts) ==
    LET n == Len(pts)
        nxt(k) == IF k = n THEN 1 ELSE k + 1
        dx(k) == pts[nxt(k)][1] - pts[k][1]
        dy(k) == pts[nxt(k)][2] - pts[k][2]
    IN  SumSeq([k \in 1..n |-> ISqrt(dx(k) * dx(k) + dy(k) * dy(k))])

\* cv2.approxPolyDP as the library answers in this run: the curve unchanged
\* ("keep"), reduced to its first two points ("collapse"), or an error
cv2_approxPolyDP(behaviour, pts, epsilon) ==
    CASE behaviour = "keep" -> Returned(pts, <<>>)
      [] behaviour = "collapse" -> Returned(SubSeq(pts, 1, Min(2, Len(pts))), <<>>)
      [] OTHER -> Raised("cv2.error", <<>>)

\* epsilon_perc in millionths for a detail factor in thousandths:
\* max_eps_perc + (1 - sqrt(normalized_detail)) * (min_eps_perc - max_eps_perc)
\* with min_detail, max_detail = 0.001, 0.050 and
\* min_eps_perc, max_eps_perc = 0.03, 0.002; the square root is taken to
\* three decimals
EpsilonPerc(detail_factor_param) ==
    LET clamped_detail_factor == Clip(detail_factor_param, 1, 50)
        sqrt_normalized == ISqrt(((clamped_detail_factor - 1) * 1000000) \div (50 - 1))
    IN  2000 + ((1000 - sqrt_normalized) * (30000 - 2000)) \div 1000

\* concave_multiplier in hundredths: 1.0 + (clamped / 100.0) * 4.0
ConcaveMultiplier(concave_factor_param) ==
    100 + Clip(concave_factor_param, 0, 100) * 4

\* epsilon in millionths of a pixel
Epsilon(detail_factor_param, concave_factor_param, arc_length) ==
    Max(100000, (EpsilonPerc(detail_factor_param) * arc_length
                 * ConcaveMultiplier(concave_factor_param)) \div 100)

\* simplify_contour gives (points, succeeded); `via` names the return
\* statement taken and eps_perc the epsilon percentage computed (-1: none)
SimplifyResult(pts, ok, via, eps_perc, logged) ==
    [pts |-> [kind |-> "ndarray", dtype |-> "int32", ndim |-> 2, pts |-> pts],
     succeeded |-> ok, via |-> via, eps_perc |-> eps_perc, log |-> logged]

\* a too-short test that lets a two-point curve through
TooFewPointsOffByOne(pts) == Len(pts) < 2

\* len(pts_simplified) < 3
TooFewPoints(pts) == Len(pts) < 3

simplify_contour(behaviour, contour, w, h, detail_factor_param, concave_factor_param) ==
    LET default_rect == DefaultRect(w, h)
        warn(msg) == <<LogRec("WARNING", "simplify_contour", <<>>, 0, msg)>>
        err == <<LogRec("ERROR", "simplify_contour", <<>>, 0, "error during simplification")>>
    IN  IF IsNone(contour) \/ Len(contour.pts) < 3
        THEN SimplifyResult(default_rect, FALSE, "insufficient", -1, warn("insufficient points"))
        ELSE IF contour.dtype \notin {"int32", "float32"}
        THEN SimplifyResult(default_rect, FALSE, "except", -1, err)
        ELSE LET arc_length == cv2_arcLength(contour.pts)
             IN  IF arc_length = 0
                 THEN SimplifyResult(default_rect, FALSE, "zero_arc", -1, warn("zero arc length"))
                 ELSE IF ~detail_factor_param.num \/ ~concave_factor_param.num
                 THEN SimplifyResult(default_rect, FALSE, "except", -1, err)
                 ELSE LET epsilon_perc == EpsilonPerc(detail_factor_param.v)
                          epsilon == Epsilon(detail_factor_param.v, concave_factor_param.v,
                                             arc_length)
                          approx == cv2_approxPolyDP(behaviour, contour.pts, epsilon)
                      IN  IF approx.raised
                          THEN SimplifyResult(default_rect, FALSE, "except", epsilon_perc, err)
                          ELSE IF TooFewPoints(approx.val)
                          THEN SimplifyResult(default_rect, FALSE, "too_short", epsilon_perc,
                                              warn("less than 3 points"))
                          ELSE SimplifyResult(approx.val, TRUE, "simplified", epsilon_perc, <<>>)

-----------------------------------------------------------------------------
(* _map_density_to_area and triangulate_mesh *)

\* a float that is the quotient n / d of two integers, d > 0
Float(n, d) == IF d < 0 THEN [kind |-> "float", n |-> -n, d |-> -d]
                        ELSE [kind |-> "float", n |-> n, d |-> d]
FloatLess(a, b) == a.n * b.d < b.n * a.d
FloatEq(a, b) == a.n * b.d = b.n * a.d

\* Python's max(a, b): b when b > a, otherwise a
PyMax(a, b) == IF FloatLess(a, b) THEN b ELSE a

\* the decimals format(x, ".10f") prints
FormatDecimals == 10

\* long division: the first k decimals of r / d (0 <= r < d) and what is left
RECURSIVE LongDiv(_, _, _)
LongDiv(r, d, k) ==
    IF k = 0 THEN [digits |-> <<>>, rest |-> r]
    ELSE LET tail == LongDiv((r * 10) % d, d, k - 1)
         IN  [digits |-> <<(r * 10) \div d>> \o tail.digits, rest |-> tail.rest]

\* a digit string plus one in its last place: the digits and the carry out
RECURSIVE PlusOne(_)
PlusOne(ds) ==
    IF ds = <<>> THEN [digits |-> <<>>, carry |-> 1]
    ELSE LET last == ds[Len(ds)]
             front == SubSeq(ds, 1, Len(ds) - 1)
         IN  IF last < 9
             THEN [digits |-> Append(front, last + 1), carry |-> 0]
             ELSE LET up == PlusOne(front)
                  IN  [digits |-> Append(up.digits, 0), carry |-> up.carry]

\* f"{x:.10f}" for x >= 0: the integer part and the ten decimals, rounded
\* to nearest (half to even)
FormatF10(x) ==
    LET whole == x.n \div x.d
        q == LongDiv(x.n % x.d, x.d, FormatDecimals)
        up == \/ 2 * q.rest > x.d
              \/ 2 * q.rest = x.d /\ q.digits[FormatDecimals] % 2 = 1
        inc == PlusOne(q.digits)
    IN  IF up THEN [kind |-> "str", whole |-> whole + inc.carry, decimals |-> inc.digits]
        ELSE [kind |-> "str", whole |-> whole, decimals |-> q.digits]

_map_density_to_area(p, density, w, h) ==
    IF ~(density > 0 /\ w > 0 /\ h > 0)
    THEN Returned(None, <<>>)
    ELSE IF ~p["density_scaling_factor"].num
    THEN Raised("TypeError", <<>>)
    ELSE IF density * p["density_scaling_factor"].v = 0
    THEN Raised("ZeroDivisionError", <<>>)
    ELSE IF ~p["min_triangle_area"].num
    THEN Raised("TypeError", <<>>)
    ELSE LET image_area == w * h
             max_area_val == Float(image_area, density * p["density_scaling_factor"].v)
             min_allowed_area == Float(p["min_triangle_area"].v, 1)
         IN  Returned(PyMax(min_allowed_area, max_area_val), <<>>)

\* twice the area of the triangle of three points
TriArea2(a, b, c) ==
    Abs((b[1] - a[1]) * (c[2] - a[2]) - (c[1] - a[1]) * (b[2] - a[2]))

\* whether a triangle of twice-area t2 is larger than the printed bound
ExceedsArea(t2, a) ==
    t2 > 2 * a.whole + (IF a.decimals[1] >= 5 THEN 1 ELSE 0)

\* tr.triangulate as the backend answers in this run.  "ok": the input
\* points stay the first vertices, in order; the polygon is cut into a fan
\* of triangles, around vertex 0 or, when an area bound is given and a
\* triangle of that fan exceeds it, around one added interior vertex.
\* "empty": a result without triangles.  "no_vertices", "no_triangles": a
\* result without that key.  "few_vertices": two vertices and a triangle
\* over them.  "reordered": the fan over the input points listed in the
\* opposite order.  Otherwise the call raises.  `keys` are the keys of the
\* dict.
tr_triangulate(behaviour, input_pts, tri_opts) ==
    LET n == Len(input_pts)
        fan == [k \in 1..(n - 2) |-> <<0, k, k + 1>>]
        refine == /\ ~IsNone(tri_opts.a)
                  /\ \E k \in 1..(n - 2) :
                        ExceedsArea(TriArea2(input_pts[1], input_pts[k + 1], input_pts[k + 2]),
                                    tri_opts.a)
        centre == <<SumSeq([k \in 1..n |-> input_pts[k][1]]) \div n,
                    SumSeq([k \in 1..n |-> input_pts[k][2]]) \div n>>
        both == {"vertices", "triangles"}
    IN  CASE behaviour = "ok" ->
               IF refine
               THEN Returned([keys |-> both, vertices |-> Append(input_pts, centre),
                              triangles |-> [k \in 1..n |-> <<k - 1, k % n, n>>]], <<>>)
               ELSE Returned([keys |-> both, vertices |-> input_pts, triangles |-> fan], <<>>)
          [] behaviour = "empty" ->
               Returned([keys |-> both, vertices |-> input_pts, triangles |-> <<>>], <<>>)
          [] behaviour = "no_vertices" ->
               Returned([keys |-> {"triangles"}, vertices |-> <<>>, triangles |-> fan], <<>>)
          [] behaviour = "no_triangles" ->
               Returned([keys |-> {"vertices"}, vertices |-> input_pts, triangles |-> <<>>], <<>>)
          [] behaviour = "reordered" ->
               Returned([keys |-> both, vertices |-> [k \in 1..n |-> input_pts[n + 1 - k]],
                         triangles |-> fan], <<>>)
          [] behaviour = "few_vertices" ->
               Returned([keys |-> both, vertices |-> SubSeq(input_pts, 1, 2),
                         triangles |-> <<<<0, 1, 1>>>>], <<>>)
          [] OTHER -> Raised("RuntimeError", <<>>)

\* triangulate_mesh gives a dict or None; `called` tells whether
\* tr.triangulate was called and tri_opts the options it was given
TriResult(val, called, tri_opts, logged) ==
    [raised |-> FALSE, val |-> val, called |-> called, tri_opts |-> tri_opts, log |-> logged]

PlainOpts == [p |-> TRUE, a |-> None]

\* a range that runs one index too far
BoundaryIndicesOneMore(num_input_pts) == [k \in 1..(num_input_pts + 1) |-> k - 1]

\* list(range(num_input_pts))
BoundaryIndices(num_input_pts) == [k \in 1..num_input_pts |-> k - 1]

\* a result test that only asks for the two keys
TriangulationFailedKeysOnly(t) ==
    "vertices" \notin t.keys \/ "triangles" \notin t.keys

\* output_vertices is None or output_triangles is None or
\* len(output_vertices) < 3 or len(output_triangles) == 0
TriangulationFailed(t) ==
    \/ "vertices" \notin t.keys
    \/ "triangles" \notin t.keys
    \/ Len(t.vertices) < 3
    \/ Len(t.triangles) = 0

\* an area test that only asks for a value
AreaGivenNotNone(max_area) == ~IsNone(max_area)

\* `if max_area and max_area > 0`: a float that is neither None nor 0.0, and
\* is positive
AreaGiven(max_area) == ~IsNone(max_area) /\ max_area.n # 0 /\ max_area.n > 0

triangulate_mesh(behaviour, p, pts_simplified, w, h, internal_vertex_density_param) ==
    LET err(msg) == <<LogRec("ERROR", "triangulate_mesh", <<>>, 0, msg)>>
    IN  IF behaviour = "unavailable"
        THEN TriResult(None, FALSE, PlainOpts, err("library not available"))
        ELSE IF IsNone(pts_simplified) \/ Len(pts_simplified.pts) < 3
        THEN TriResult(None, FALSE, PlainOpts,
                       <<LogRec("WARNING", "triangulate_mesh", <<>>, 0, "insufficient points")>>)
        ELSE IF ~internal_vertex_density_param.num
        THEN TriResult(None, FALSE, PlainOpts, err("exception"))
        ELSE LET num_input_pts == Len(pts_simplified.pts)
                 area == IF internal_vertex_density_param.v > 0
                         THEN _map_density_to_area(p, internal_vertex_density_param.v, w, h)
                         ELSE Returned(None, <<>>)
             IN  IF area.raised
                 THEN TriResult(None, FALSE, PlainOpts, err("exception"))
                 ELSE LET max_area == area.val
                          tri_opts ==
                              IF AreaGiven(max_area)
                              THEN [p |-> TRUE, a |-> FormatF10(max_area)]
                              ELSE PlainOpts
                          t == tr_triangulate(behaviour, pts_simplified.pts, tri_opts)
                      IN  IF t.raised
                          THEN TriResult(None, TRUE, tri_opts, err("exception"))
                          ELSE IF TriangulationFailed(t.val)
                          THEN TriResult(None, TRUE, tri_opts, err("insufficient result"))
                          ELSE TriResult([kind |-> "dict",
                                          vertices |-> t.val.vertices,
                                          triangles |-> t.val.triangles,
                                          boundary_indices |->
                                              BoundaryIndices(num_input_pts)],
                                         TRUE, tri_opts, <<>>)

-----------------------------------------------------------------------------
(* generate_standard_uvs (core/utils/mesh_utils.py) and _calculate_mesh_edges *)

\* ndarray.flatten().tolist() of an (N, 2) array
Flatten(vertices) ==
    [k \in 1..(2 * Len(vertices)) |-> vertices[(k + 1) \div 2][IF k % 2 = 1 THEN 1 ELSE 2]]

\* UVs with V measured from the bottom of the image
generate_standard_uvs_flipped(local_vertices, image_width, image_height) ==
    Returned([k \in 1..((Len(local_vertices) \div 2) * 2) |->
                 IF k % 2 = 1 THEN Float(local_vertices[k], image_width)
                 ELSE Float(image_height - local_vertices[k], image_height)], <<>>)

generate_standard_uvs(local_vertices, image_width, image_height) ==
    IF local_vertices = <<>>
    THEN Returned(<<>>, <<LogRec("WARNING", "generate_standard_uvs", <<>>, 0, "empty vertices")>>)
    ELSE IF ~(image_width > 0 /\ image_height > 0)
    THEN Returned([k \in 1..Len(local_vertices) |-> Float(0, 1)],
                  <<LogRec("WARNING", "generate_standard_uvs", <<>>, 0, "size <= 0")>>)
    ELSE LET processed_length == (Len(local_vertices) \div 2) * 2
         IN  Returned([k \in 1..processed_length |->
                          IF k % 2 = 1 THEN Float(local_vertices[k], image_width)
                          ELSE Float(local_vertices[k], image_height)],
                      IF Len(local_vertices) % 2 # 0
                      THEN <<LogRec("WARNING", "generate_standard_uvs", <<>>, 0, "odd length")>>
                      ELSE <<>>)

\* the three edges of a triangle as they are met, not normalized
TriangleEdgesDirected(t) == <<<<t[1], t[2]>>, <<t[2], t[3]>>, <<t[3], t[1]>>>>

\* the three edges of a triangle, smaller index first
TriangleEdges(t) ==
    <<<<Min(t[1], t[2]), Max(t[1], t[2])>>,
      <<Min(t[2], t[3]), Max(t[2], t[3])>>,
      <<Min(t[3], t[1]), Max(t[3], t[1])>>>>

\* every edge of every triangle, in the order the loop meets them
AllEdges(triangles) ==
    [k \in 1..(3 * Len(triangles)) |-> TriangleEdges(triangles[(k + 2) \div 3])[((k - 1) % 3) + 1]]

\* edge_count[e]
EdgeCount(es, e) == Cardinality({k \in 1..Len(es) : es[k] = e})

\* the keys of edge_count in insertion order
EdgeKeys(es) == SelectSeqIdx(es, {k \in 1..Len(es) : \A j \in 1..(k - 1) : es[j] # es[k]})

\* [v1, v2, v1, v2, ...] of a sequence of edges
FlatEdges(es) == [k \in 1..(2 * Len(es)) |-> es[(k + 1) \div 2][IF k % 2 = 1 THEN 1 ELSE 2]]

\* a boundary test that takes every counted edge
UsedOnceOrMore(count) == count >= 1

\* `if count == 1`
UsedOnce(count) == count = 1

_calculate_mesh_edges(triangles, num_vertices) ==
    LET es == AllEdges(triangles)
        keys == EdgeKeys(es)
    IN  [boundary_edges |->
             FlatEdges(SelectSeqIdx(keys, {k \in 1..Len(keys) :
                                              UsedOnce(EdgeCount(es, keys[k]))})),
         internal_edges |->
             FlatEdges(SelectSeqIdx(keys, {k \in 1..Len(keys) :
                                              ~UsedOnce(EdgeCount(es, keys[k]))}))]

-----------------------------------------------------------------------------
(* generate_mesh_data, one step per stage *)

\* NextStage with the mask filter left out
NextStageNoFilter(stage) ==
    CASE stage = "load_image" -> "create_initial_mask"
      [] stage = "create_initial_mask" -> "find_main_contour"
      [] stage = "process_mask_for_contours" -> "find_main_contour"
      [] stage = "find_main_contour" -> "simplify_contour"
      [] stage = "simplify_contour" -> "triangulate_mesh"
      [] stage = "triangulate_mesh" -> "generate_standard_uvs"
      [] stage = "generate_standard_uvs" -> "_calculate_mesh_edges"

\* the stage generate_mesh_data runs after a stage that gave a success value
NextStage(stage) ==
    CASE stage = "load_image" -> "create_initial_mask"
      [] stage = "create_initial_mask" -> "process_mask_for_contours"
      [] stage = "process_mask_for_contours" -> "find_main_contour"
      [] stage = "find_main_contour" -> "simplify_contour"
      [] stage = "simplify_contour" -> "triangulate_mesh"
      [] stage = "triangulate_mesh" -> "generate_standard_uvs"
      [] stage = "generate_standard_uvs" -> "_calculate_mesh_edges"

\* the message of the logger.error call that precedes each `return None`
FailureMessage(stage) ==
    CASE stage = "load_image" -> "Failed to load image or image has zero dimensions"
      [] stage = "create_initial_mask" -> "Failed to create initial mask"
      [] stage = "process_mask_for_contours" -> "Failed to process mask for contours"
      [] stage = "find_main_contour" -> "Failed to find main contour"
      [] stage = "triangulate_mesh" -> "Failed to triangulate mesh"

\* FailureValue giving a value that names the failing stage
FailureValueTyped(stage) == [kind |-> "Failure", stage |-> stage]

\* the value `return None` hands to the caller of generate_mesh_data
FailureValue(stage) == None

NoFrame ==
    [image_path_str |-> None, img |-> None, h |-> 0, w |-> 0, mask |-> None,
     binary_mask |-> None, contour |-> None, pts_simplified |-> None, success |-> FALSE,
     via |-> "", mesh_result |-> None, uvs |-> <<>>]

Pending == [how |-> "pending", at |-> "", surfaced |-> None]

\* a stage that ran, and how it ended: "ok", "fallback" (simplify_contour
\* gave the default rectangle), "failed" (a failure value) or "raised"
Ran(stage, result) == [stage |-> stage, result |-> result]

\* The common shape of a stage step of the call running for input position
\* i: the stage runs; an exception leaves generate_mesh_data; a failure
\* value is logged with the image's name and None is returned; otherwise the
\* locals are updated (and `extra` logged) and the next stage is due.
StageStep(stage, r, failed, extra, next_frame) ==
    /\ IF r.raised
       THEN /\ gm_out' = r
            /\ outcome' = [outcome EXCEPT ![i] = [how |-> "raised", at |-> stage, surfaced |-> r.val]]
            /\ stages' = [stages EXCEPT ![i] = Append(@, Ran(stage, "raised"))]
            /\ log' = log \o r.log
            /\ pc' = "item_end"
            /\ frame' = frame
       ELSE IF failed
       THEN /\ gm_out' = Returned(FailureValue(stage), <<>>)
            /\ outcome' = [outcome EXCEPT ![i] =
                              [how |-> "failed", at |-> stage, surfaced |-> FailureValue(stage)]]
            /\ stages' = [stages EXCEPT ![i] = Append(@, Ran(stage, "failed"))]
            /\ log' = log \o r.log \o
                      <<LogRec("ERROR", "generate_mesh_data",
                               PathName(frame.image_path_str), 0, FailureMessage(stage))>>
            /\ pc' = "item_end"
            /\ frame' = frame
       ELSE /\ log' = log \o r.log \o extra
            /\ stages' = [stages EXCEPT ![i] =
                             Append(@, Ran(stage, IF extra = <<>> THEN "ok" ELSE "fallback"))]
            /\ pc' = NextStage(stage)
            /\ frame' = next_frame
            /\ UNCHANGED <<gm_out, outcome>>
    /\ UNCHANGED <<svc_vars, fs, supplied, params, cv2_approx, tr, image_paths, i, results, calls>>

LoadImage ==
    /\ pc = "load_image"
    /\ LET r == load_image(fs, frame.image_path_str)
       IN  StageStep("load_image", r,
                     IsNone(r.val.img) \/ r.val.h = 0 \/ r.val.w = 0, <<>>,
                     [frame EXCEPT !.img = r.val.img, !.h = r.val.h, !.w = r.val.w])

CreateInitialMask ==
    /\ pc = "create_initial_mask"
    /\ LET r == create_initial_mask(params, frame.img, frame.h, frame.w)
       IN  StageStep("create_initial_mask", r, IsNone(r.val), <<>>,
                     [frame EXCEPT !.mask = r.val])

ProcessMaskForContours ==
    /\ pc = "process_mask_for_contours"
    /\ LET r == process_mask_for_contours(frame.mask, params["blur_kernel_size"],
                                          params["binary_threshold"])
       IN  StageStep("process_mask_for_contours", r, IsNone(r.val), <<>>,
                     [frame EXCEPT !.binary_mask = r.val])

FindMainContour ==
    /\ pc = "find_main_contour"
    /\ LET r == find_main_contour(params, frame.binary_mask)
       IN  StageStep("find_main_contour", r, IsNone(r.val), <<>>,
                     [frame EXCEPT !.contour = r.val])

SimplifyContour ==
    /\ pc = "simplify_contour"
    /\ LET s == simplify_contour(cv2_approx, frame.contour, frame.w, frame.h,
                                 params["detail_factor"], params["concave_factor"])
       IN  StageStep("simplify_contour", Returned(s, s.log), FALSE,
                     IF ~s.succeeded
                     THEN <<LogRec("WARNING", "generate_mesh_data",
                                   PathName(frame.image_path_str), 0, "used fallback")>>
                     ELSE <<>>,
                     [frame EXCEPT !.pts_simplified = s.pts, !.success = s.succeeded,
                                   !.via = s.via])

TriangulateMesh ==
    /\ pc = "triangulate_mesh"
    /\ LET r == triangulate_mesh(tr, params, frame.pts_simplified, frame.w, frame.h,
                                 params["internal_vertex_density"])
       IN  StageStep("triangulate_mesh", r, IsNone(r.val), <<>>,
                     [frame EXCEPT !.mesh_result = r.val])

GenerateUVs ==
    /\ pc = "generate_standard_uvs"
    /\ LET r == generate_standard_uvs(Flatten(frame.mesh_result.vertices), frame.w, frame.h)
       IN  StageStep("generate_standard_uvs", r, FALSE, <<>>,
                     [frame EXCEPT !.uvs = r.val])

\* the dict generate_mesh_data returns
\* A dict object: `ref` tells which object it is, `items` what it holds.
\* The dict of the processor:
SelfParamsRef == <<"self.params">>

\* the processor's own dict handed out
ParamsShared(p, at) == [ref |-> SelfParamsRef, items |-> p]

\* self.params.copy() made by the run for input position `at`: a new dict
\* of the same items
ParamsCopy(p, at) == [ref |-> <<"copy", at>>, items |-> p]

\* a result whose UV list is one list shared by the runs and grown by each
MeshDataSharedUVs(f, p, edges) ==
    [kind |-> "dict",
     image_path |-> f.image_path_str,
     image_name |-> PathStem(f.image_path_str),
     width |-> f.w,
     height |-> f.h,
     vertices |-> f.mesh_result.vertices,
     triangles |-> f.mesh_result.triangles,
     uvs |-> (IF results = <<>> THEN <<>> ELSE results[Len(results)].uvs) \o f.uvs,
     boundary_indices |-> f.mesh_result.boundary_indices,
     boundary_edges |-> edges.boundary_edges,
     internal_edges |-> edges.internal_edges,
     params_used |-> ParamsCopy(p, i),
     x |-> Float(f.w, 2),
     y |-> Float(f.h, 2)]

MeshData(f, p, edges) ==
    [kind |-> "dict",
     image_path |-> f.image_path_str,
     image_name |-> PathStem(f.image_path_str),
     width |-> f.w,
     height |-> f.h,
     vertices |-> f.mesh_result.vertices,
     triangles |-> f.mesh_result.triangles,
     uvs |-> f.uvs,
     boundary_indices |-> f.mesh_result.boundary_indices,
     boundary_edges |-> edges.boundary_edges,
     internal_edges |-> edges.internal_edges,
     params_used |-> ParamsCopy(p, i),
     x |-> Float(f.w, 2),
     y |-> Float(f.h, 2)]

CalculateEdgesAndReturn ==
    /\ pc = "_calculate_mesh_edges"
    /\ LET edges == _calculate_mesh_edges(frame.mesh_result.triangles,
                                          Len(frame.mesh_result.vertices))
           result == MeshData(frame, params, edges)
       IN  /\ gm_out' = Returned(result, <<>>)
           /\ outcome' = [outcome EXCEPT ![i] =
                             [how |-> "ok", at |-> "_calculate_mesh_edges", surfaced |-> result]]
    /\ stages' = [stages EXCEPT ![i] = Append(@, Ran("_calculate_mesh_edges", "ok"))]
    /\ pc' = "item_end"
    /\ UNCHANGED <<svc_vars, fs, supplied, params, cv2_approx, tr, image_paths, i, results, frame,
                   log, calls>>

-----------------------------------------------------------------------------
(* process_image_batch *)

\* Truthy without the test
TruthyAlways(x) == TRUE

\* `if mesh_data:` -- None is false, a dict with keys is true
Truthy(x) == ~IsNone(x)

\* Collect putting the new entry first
CollectFront(rs, mesh_data) == <<mesh_data>> \o rs

\* results.append(mesh_data)
Collect(rs, mesh_data) == Append(rs, mesh_data)

\* CaughtByExcept of a clause that catches nothing
CaughtNothing(exc) == FALSE

\* `except Exception`: the classes the clause catches.  All the exceptions
\* the stages raise derive from Exception.
CaughtByExcept(exc) ==
    exc.type \in {"TypeError", "ValueError", "ZeroDivisionError", "RuntimeError", "cv2.error"}

\* SkippedLevel lowered to INFO
SkippedLevelInfo == "INFO"

\* the level of the record logged for an item whose mesh_data is None
SkippedLevel == "WARNING"
\* the level of the record logged in the except clause
UnhandledLevel == "ERROR"

BatchEnter ==
    /\ pc = "call"
    /\ pc' = IF Len(image_paths) = 0 THEN "returned" ELSE "loop"
    /\ i' = 1
    /\ results' = <<>>
    /\ UNCHANGED <<svc_vars, fs, supplied, params, cv2_approx, tr, image_paths, frame, gm_out, log,
                   stages, outcome, calls>>

\* the loop takes the next item and calls generate_mesh_data on it
LoopItem ==
    /\ pc = "loop"
    /\ i <= Len(image_paths)
    /\ frame' = [NoFrame EXCEPT !.image_path_str = image_paths[i]]
    /\ pc' = "load_image"
    /\ UNCHANGED <<svc_vars, fs, supplied, params, cv2_approx, tr, image_paths, i, results, gm_out,
                   log, stages, outcome, calls>>

\* the body of the try statement after the call, and its except clause
ItemEnd ==
    /\ pc = "item_end"
    /\ IF gm_out.raised /\ ~CaughtByExcept(gm_out.val)
       THEN \* the exception leaves process_image_batch
            /\ pc' = "raised"
            /\ UNCHANGED <<log, results, i>>
       ELSE /\ pc' = "loop"
            /\ i' = i + 1
            /\ IF gm_out.raised
               THEN /\ log' = Append(log, LogRec(UnhandledLevel, "process_image_batch",
                                                 PathName(image_paths[i]), i,
                                                 "Unhandled exception"))
                    /\ results' = results
               ELSE IF Truthy(gm_out.val)
               THEN /\ results' = Collect(results, gm_out.val)
                    /\ log' = log
               ELSE /\ log' = Append(log, LogRec(SkippedLevel, "process_image_batch",
                                                 PathName(image_paths[i]), i,
                                                 "Failed to generate mesh data"))
                    /\ results' = results
    /\ frame' = NoFrame
    /\ UNCHANGED <<svc_vars, fs, supplied, params, cv2_approx, tr, image_paths, gm_out, stages,
                   outcome, calls>>

BatchReturn ==
    /\ pc = "loop"
    /\ i > Len(image_paths)
    /\ pc' = "returned"
    /\ UNCHANGED <<svc_vars, fs, supplied, params, cv2_approx, tr, image_paths, i, results, frame,
                   gm_out, log, stages, outcome, calls>>

-----------------------------------------------------------------------------
(* The batch specification *)

\* parameter dictionaries given to the constructor: none, the example's
\* small-contour setting, interior refinement, and a value that is no number
SuppliedDicts ==
    {EmptyDict,
     [k \in {"min_contour_area"} |-> Num(0)],
     [k \in {"internal_vertex_density", "density_scaling_factor"} |->
         IF k = "internal_vertex_density" THEN Num(15) ELSE Num(1)],
     [k \in {"blur_kernel_size"} |-> NonNum]}

ApproxBehaviours == {"keep", "collapse", "raise"}
TrBehaviours == {"ok", "empty", "raise", "unavailable"}

\* how the two libraries answer during one batch: both as expected, or one
\* of them failing in one of its ways, or both giving too little
LibraryBehaviours ==
    {b \in ApproxBehaviours \X TrBehaviours :
        b[1] = "keep" \/ b[2] = "ok" \/ b = <<"collapse", "empty">>}

Batches == UNION {[1..n -> Paths] : n \in 0..MaxBatch}

Init ==
    /\ fs = Files
    /\ NoService
    /\ supplied \in SuppliedDicts
    /\ params = InitParams(supplied)
    /\ \E b \in LibraryBehaviours : cv2_approx = b[1] /\ tr = b[2]
    /\ image_paths \in Batches
    /\ pc = "call"
    /\ i = 0
    /\ results = <<>>
    /\ frame = NoFrame
    /\ gm_out = Returned(None, <<>>)
    /\ log = <<>>
    /\ stages = [k \in 1..Len(image_paths) |-> <<>>]
    /\ outcome = [k \in 1..Len(image_paths) |-> Pending]
    /\ calls = <<>>

Next ==
    \/ BatchEnter
    \/ LoopItem
    \/ LoadImage
    \/ CreateInitialMask
    \/ ProcessMaskForContours
    \/ FindMainContour
    \/ SimplifyContour
    \/ TriangulateMesh
    \/ GenerateUVs
    \/ CalculateEdgesAndReturn
    \/ ItemEnd
    \/ BatchReturn

Spec == Init /\ [][Next]_vars

-----------------------------------------------------------------------------
(* Properties of process_image_batch and generate_mesh_data (Spec) *)

\* the input positions whose generate_mesh_data call has ended
Ended(k) == outcome[k].how # "pending"

\* the input positions whose call gave a mesh, in input order
OkPositions ==
    SelectSeqIdx([k \in 1..Len(image_paths) |-> k],
                 {k \in 1..Len(image_paths) : outcome[k].how = "ok"})

\* how often the pipeline was started for input position k
TimesStarted(k) ==
    Cardinality({n \in 1..Len(stages[k]) : stages[k][n].stage = "load_image"})

\* C1: process_image_batch runs the pipeline on every element exactly once,
\* in list order, and returns normally: the call never ends by raising, an
\* item is started only after every earlier item has ended (with a mesh,
\* with None or with an exception), an item that has ended is followed by
\* the next loop step, and once the call has returned every element was
\* run exactly once.
C1_BatchNeverAborts ==
    /\ pc # "raised"
    /\ pc = "item_end" => Ended(i) /\ (gm_out.raised => CaughtByExcept(gm_out.val))
    /\ \A k \in 1..Len(image_paths) :
          /\ TimesStarted(k) <= 1
          /\ TimesStarted(k) = 1 => \A j \in 1..(k - 1) : Ended(j)
          /\ pc = "returned" => TimesStarted(k) = 1 /\ Ended(k)

\* C1 witness: a returned batch in which an item that raised and an item
\* that gave None are both followed by an item that was still processed.
C1_Witness ==
    /\ pc = "returned"
    /\ \E j, k \in 1..Len(image_paths) : j < k /\ outcome[j].how = "raised" /\ Ended(k)
    /\ \E j, k \in 1..Len(image_paths) : j < k /\ outcome[j].how = "failed" /\ Ended(k)

\* C2: the returned list holds one entry per input position whose
\* generate_mesh_data call gave a mesh and nothing else: it is exactly the
\* sequence of those meshes, so no entry is None and its length is the
\* number of successful items.
C2_OnlySuccessesReturned ==
    pc = "returned" =>
        /\ Len(results) = Cardinality({k \in 1..Len(image_paths) : outcome[k].how = "ok"})
        /\ \A a \in 1..Len(results) :
              /\ ~IsNone(results[a])
              /\ results[a] = outcome[OkPositions[a]].surfaced

\* C2 witness: a returned batch with successes and failures.
C2_Witness ==
    /\ pc = "returned"
    /\ Len(results) = 2
    /\ Len(image_paths) = 3

\* C3: the results are in the relative order of their inputs: the a-th
\* entry carries the path of the a-th successful input position.
C3_InputOrderKept ==
    pc = "returned" =>
        /\ Len(results) = Len(OkPositions)
        /\ \A a \in 1..Len(results) : results[a].image_path = image_paths[OkPositions[a]]

\* C3 witness: two different images succeed with a failed one between them.
C3_Witness ==
    /\ pc = "returned"
    /\ Len(image_paths) = 3
    /\ outcome[1].how = "ok" /\ outcome[2].how = "failed" /\ outcome[3].how = "ok"
    /\ image_paths[1] # image_paths[3]

\* a record of level WARNING or higher that names input position k and the
\* file name of its path
Reported(k) ==
    \E n \in 1..Len(log) :
        /\ log[n].level \in {"WARNING", "ERROR", "CRITICAL"}
        /\ log[n].idx = k
        /\ log[n].item = PathName(image_paths[k])

\* C4: every input item the loop has passed without adding a result for it
\* (its call gave None or raised) has a log record of level WARNING or
\* higher that identifies it.
C4_FailuresLogged ==
    \A k \in 1..Len(image_paths) :
        (k < i /\ outcome[k].how \in {"failed", "raised"}) => Reported(k)

\* C4 witness: a returned batch holding an item that gave None and an item
\* that raised.
C4_Witness ==
    /\ pc = "returned"
    /\ \E k \in 1..Len(image_paths) : outcome[k].how = "failed"
    /\ \E k \in 1..Len(image_paths) : outcome[k].how = "raised"

\* the order of the stages the claim gives
C5_Order ==
    <<"load_image", "create_initial_mask", "process_mask_for_contours",
      "find_main_contour", "simplify_contour", "triangulate_mesh",
      "generate_standard_uvs", "_calculate_mesh_edges">>

\* C5: in every generate_mesh_data call the stages run in the fixed order
\* load, mask, filter, contour, simplify, triangulate, UVs, edges; a stage
\* runs only after every earlier stage gave a success value (a fallback
\* rectangle counts as one); a failure value comes only from load, mask,
\* filter, contour search or triangulation, and after it no stage runs and
\* the call gives None; a call that gave a mesh ran all the stages; and a
\* call whose simplification fell back has run triangulation by its end.
C5_StageOrder ==
    \A k \in 1..Len(image_paths) :
        LET ran == stages[k] IN
        /\ Len(ran) <= Len(C5_Order)
        /\ \A n \in 1..Len(ran) :
              /\ ran[n].stage = C5_Order[n]
              /\ n < Len(ran) => ran[n].result \in {"ok", "fallback"}
              /\ ran[n].result = "fallback" => ran[n].stage = "simplify_contour"
              /\ ran[n].result = "failed" =>
                    /\ ran[n].stage \in {"load_image", "create_initial_mask",
                                         "process_mask_for_contours", "find_main_contour",
                                         "triangulate_mesh"}
                    /\ outcome[k].how = "failed"
                    /\ IsNone(outcome[k].surfaced)
              /\ (ran[n].result = "fallback" /\ Ended(k)) =>
                    Len(ran) > n /\ ran[n + 1].stage = "triangulate_mesh"
        /\ outcome[k].how = "ok" => Len(ran) = Len(C5_Order)
        /\ outcome[k].how = "failed" => ran[Len(ran)].result = "failed"

\* C5 witness: a batch in which one call stopped at the contour search,
\* one stopped at triangulation after a fallback rectangle, and the loop
\* went on.
C5_Witness ==
    /\ pc = "returned"
    /\ \E k \in 1..Len(image_paths) : outcome[k].how = "failed" /\ outcome[k].at = "find_main_contour"
    /\ \E k \in 1..Len(image_paths) :
          /\ outcome[k].how = "failed" /\ outcome[k].at = "triangulate_mesh"
          /\ stages[k][5].result = "fallback"

\* the error kind the claim gives a failing stage
C6_Kind(stage) ==
    CASE stage = "load_image" -> "ImageLoadFailure"
      [] stage \in {"create_initial_mask", "process_mask_for_contours"} -> "EmptyMask"
      [] stage = "find_main_contour" -> "NoContourFound"
      [] stage = "triangulate_mesh" -> "TriangulationFailure"

\* C6 as stated: the value generate_mesh_data surfaces on a stage failure
\* is typed, so two calls that failed with different error kinds surface
\* different values.
C6_TypedFailure ==
    \A j, k \in 1..Len(image_paths) :
        (/\ outcome[j].how = "failed"
         /\ outcome[k].how = "failed"
         /\ C6_Kind(outcome[j].at) # C6_Kind(outcome[k].at))
        => outcome[j].surfaced # outcome[k].surfaced

\* C6 as amended: whichever stage fails, generate_mesh_data returns None;
\* the failing stage shows only in the ERROR record the call logs, with the
\* image's name, right before it returns: the message of that record is
\* the message of the failed stage and of no other stage.
C6_FailureIsNoneAndLogged ==
    /\ \A k \in 1..Len(image_paths) :
          outcome[k].how = "failed" => IsNone(outcome[k].surfaced)
    /\ (pc = "item_end" /\ outcome[i].how = "failed") =>
          /\ ~gm_out.raised /\ IsNone(gm_out.val)
          /\ log # <<>>
          /\ LET rec == log[Len(log)]
             IN  /\ rec.level = "ERROR"
                 /\ rec.who = "generate_mesh_data"
                 /\ rec.item = PathName(image_paths[i])
                 /\ \A s \in {"load_image", "create_initial_mask", "process_mask_for_contours",
                              "find_main_contour", "triangulate_mesh"} :
                       FailureMessage(s) = rec.msg <=> s = outcome[i].at

\* C6 witness: two calls of one batch failed with different error kinds.
C6_Witness ==
    \E j, k \in 1..Len(image_paths) :
        /\ outcome[j].how = "failed" /\ outcome[j].at = "load_image"
        /\ outcome[k].how = "failed" /\ outcome[k].at = "triangulate_mesh"
        /\ k < i

-----------------------------------------------------------------------------
(* Direct calls of simplify_contour and triangulate_mesh, as the mesh      *)
(* service makes them with the values of a request                         *)

\* the number of direct calls followed
MaxCalls == 2

RectContourPts == <<<<1, 1>>, <<1, 6>>, <<4, 6>>, <<4, 1>>>>

\* contours handed to simplify_contour: none, two points, three coinciding
\* points, a rectangle, the same as a float64 array, and the outline of a
\* whole 6 x 8 image
SimplifyContours ==
    {None,
     Contour(<<<<1, 1>>, <<4, 1>>>>),
     Contour(<<<<2, 2>>, <<2, 2>>, <<2, 2>>>>),
     Contour(RectContourPts),
     [Contour(RectContourPts) EXCEPT !.dtype = "float64"],
     Contour(<<<<0, 0>>, <<6, 0>>, <<6, 8>>, <<0, 8>>>>)}

\* (w, h) of the image the contour is said to come from
ImageSizes == {<<6, 8>>, <<3, 5>>, <<0, 0>>}

\* detail factors in thousandths: below, at the ends of, inside and above
\* 0.001 .. 0.050, and a value that is no number
DetailFactors == {Num(0), Num(1), Num(10), Num(25), Num(50), Num(80), NonNum}
ConcaveFactors == {Num(0), Num(50), NonNum}

\* the arguments of the simplify_contour calls: every contour with every
\* size, and the rectangle with every detail and concave factor
SimplifyArgs ==
    {[contour |-> c, w |-> s[1], h |-> s[2], detail_factor |-> Num(10),
      concave_factor |-> Num(0)] : c \in SimplifyContours, s \in ImageSizes}
    \cup
    {[contour |-> Contour(RectContourPts), w |-> 6, h |-> 8, detail_factor |-> d,
      concave_factor |-> cf] : d \in DetailFactors, cf \in ConcaveFactors}

HarnessInit ==
    /\ fs = Files
    /\ NoService
    /\ image_paths = <<>>
    /\ pc = "direct"
    /\ i = 0
    /\ results = <<>>
    /\ frame = NoFrame
    /\ gm_out = Returned(None, <<>>)
    /\ log = <<>>
    /\ stages = <<>>
    /\ outcome = <<>>
    /\ calls = <<>>

CallSimplifyContour ==
    /\ pc = "direct"
    /\ Len(calls) < MaxCalls
    /\ \E a \in SimplifyArgs :
          LET r == simplify_contour(cv2_approx, a.contour, a.w, a.h,
                                    a.detail_factor, a.concave_factor)
          IN  /\ calls' = Append(calls, [fn |-> "simplify_contour", args |-> a, result |-> r])
              /\ log' = log \o r.log
    /\ UNCHANGED <<svc_vars, fs, supplied, params, cv2_approx, tr, image_paths, pc, i, results,
                   frame, gm_out, stages, outcome>>

InitSimplify ==
    /\ HarnessInit
    /\ supplied = EmptyDict
    /\ params = InitParams(supplied)
    /\ cv2_approx \in ApproxBehaviours
    /\ tr = "ok"

NextSimplify == CallSimplifyContour

SpecSimplify == InitSimplify /\ [][NextSimplify]_vars

\* parameter dictionaries for the triangulate_mesh calls: the defaults, and
\* every scaling factor of 1, 0, -1 with a least area of 1 or 0
TriangulateDicts ==
    {EmptyDict} \cup
    {[k \in {"density_scaling_factor", "min_triangle_area"} |->
         IF k = "density_scaling_factor" THEN Num(s) ELSE Num(m)] :
        s \in {1, 0, -1}, m \in {1, 0}}

\* the ways the backend answers a direct call
TrAnswers ==
    TrBehaviours \cup {"no_vertices", "no_triangles", "few_vertices", "reordered"}

Densities == {Num(0), Num(7), Num(50), Num(-3), NonNum}
TriangulateSizes == {<<6, 8>>, <<0, 8>>, <<6, -1>>}

SimplifiedPts(pts) == [kind |-> "ndarray", dtype |-> "int32", ndim |-> 2, pts |-> pts]

\* the arguments of the triangulate_mesh calls: the rectangle with every
\* size and density, and a two-point array, a triangle and a concave
\* pentagon
TriangulateArgs ==
    {[pts_simplified |-> SimplifiedPts(RectContourPts), w |-> s[1], h |-> s[2],
      internal_vertex_density |-> d] : s \in TriangulateSizes, d \in Densities}
    \cup
    {[pts_simplified |-> SimplifiedPts(<<<<1, 1>>, <<4, 1>>>>), w |-> 6, h |-> 8,
      internal_vertex_density |-> Num(7)],
     [pts_simplified |-> SimplifiedPts(<<<<1, 1>>, <<1, 6>>, <<4, 6>>>>), w |-> 6, h |-> 8,
      internal_vertex_density |-> Num(0)],
     [pts_simplified |-> SimplifiedPts(<<<<1, 1>>, <<1, 6>>, <<4, 6>>, <<2, 3>>, <<4, 1>>>>),
      w |-> 6, h |-> 8, internal_vertex_density |-> Num(0)]}

CallTriangulateMesh ==
    /\ pc = "direct"
    /\ Len(calls) < MaxCalls
    /\ \E a \in TriangulateArgs :
          LET r == triangulate_mesh(tr, params, a.pts_simplified, a.w, a.h,
                                    a.internal_vertex_density)
          IN  /\ calls' = Append(calls, [fn |-> "triangulate_mesh", args |-> a, result |-> r])
              /\ log' = log \o r.log
    /\ UNCHANGED <<svc_vars, fs, supplied, params, cv2_approx, tr, image_paths, pc, i, results,
                   frame, gm_out, stages, outcome>>

\* a processor of any of the dictionaries over a working backend, or one of
\* the default parameters over a backend that answers in any of its ways
InitTriangulate ==
    /\ HarnessInit
    /\ \/ supplied \in TriangulateDicts /\ tr = "ok"
       \/ supplied = EmptyDict /\ tr \in TrAnswers
    /\ params = InitParams(supplied)
    /\ cv2_approx = "keep"

NextTriangulate == CallTriangulateMesh

SpecTriangulate == InitTriangulate /\ [][NextTriangulate]_vars

-----------------------------------------------------------------------------
(* Properties of simplify_contour (SpecSimplify) *)

SimplifyCalls == {k \in DOMAIN calls : calls[k].fn = "simplify_contour"}

\* the closed arc length of a curve is zero exactly when its points coincide
C7_ZeroArc(pts) == \A k \in DOMAIN pts : pts[k] = pts[1]

\* the contour of the call has fewer than 3 points, is None, or has a zero
\* closed arc length
C7_Degenerate(contour) ==
    \/ IsNone(contour)
    \/ Len(contour.pts) < 3
    \/ C7_ZeroArc(contour.pts)

\* C7: simplify_contour called with a contour of fewer than 3 points or None,
\* or with a contour of zero closed arc length, returns exactly the rectangle
\* [(0,0),(w,0),(w,h),(0,h)] of the w and h it was given, with
\* succeeded = False, whatever w and h are.
C7_DegenerateGivesRectangle ==
    \A k \in SimplifyCalls :
        LET a == calls[k].args
            r == calls[k].result
        IN  C7_Degenerate(a.contour) =>
                /\ r.pts.pts = <<<<0, 0>>, <<a.w, 0>>, <<a.w, a.h>>, <<0, a.h>>>>
                /\ r.succeeded = FALSE

\* a call with three coinciding points and one with a missing contour, for
\* images of different sizes, have returned
C7_Witness ==
    \E k, j \in SimplifyCalls :
        /\ ~IsNone(calls[k].args.contour)
        /\ Len(calls[k].args.contour.pts) = 3
        /\ calls[k].result.via = "zero_arc"
        /\ calls[k].args.w = 3 /\ calls[k].args.h = 5
        /\ IsNone(calls[j].args.contour)
        /\ calls[j].result.via = "insufficient"
        /\ calls[j].args.w = 6 /\ calls[j].args.h = 8

\* the return statements of simplify_contour that give the fallback
C8_FallbackPaths == {"insufficient", "zero_arc", "too_short", "except"}

\* C8: simplify_contour never returns fewer than 3 points: every call returns
\* either a reduced contour of at least 3 points with succeeded = True, or
\* the 4-point fallback rectangle with succeeded = False (also when the
\* reduction gives fewer than 3 points or raises); succeeded is False exactly
\* when the result is the rectangle given by a fallback path.
C8_ThreePointsOrFallback ==
    \A k \in SimplifyCalls :
        LET a == calls[k].args
            r == calls[k].result
        IN  /\ Len(r.pts.pts) >= 3
            /\ r.pts.dtype = "int32"
            /\ r.succeeded \in BOOLEAN
            /\ r.succeeded => r.via = "simplified"
            /\ ~r.succeeded <=>
                   /\ r.via \in C8_FallbackPaths
                   /\ r.pts.pts = <<<<0, 0>>, <<a.w, 0>>, <<a.w, a.h>>, <<0, a.h>>>>

\* a reduction that gave fewer than 3 points was answered by the rectangle
C8_Witness ==
    \E k \in SimplifyCalls :
        /\ cv2_approx = "collapse"
        /\ calls[k].result.via = "too_short"
        /\ Len(calls[k].args.contour.pts) >= 3
        /\ calls[k].result.eps_perc # -1
        /\ ~calls[k].result.succeeded
        /\ Len(calls[k].result.pts.pts) = 4

\* C9: the epsilon percentage is monotone in detail_factor the way the
\* documentation says: for two detail factors with clamp(d1) < clamp(d2)
\* (clamped to 0.001 .. 0.050) the percentage for d1 is at most the one for
\* d2, and every percentage lies between 0.002 and 0.03.
C9_LowerDetailSmallerEpsilon ==
    \A k, j \in SimplifyCalls :
        LET rk == calls[k].result
            rj == calls[j].result
            dk == calls[k].args.detail_factor
            dj == calls[j].args.detail_factor
        IN  (rk.eps_perc # -1 /\ rj.eps_perc # -1) =>
                /\ rk.eps_perc \in 2000..30000
                /\ Clip(dk.v, 1, 50) < Clip(dj.v, 1, 50) => rk.eps_perc <= rj.eps_perc

\* what the code computes: the percentage stays within 0.002 .. 0.03 and
\* falls as detail_factor rises
C9_CodeDirection ==
    \A k, j \in SimplifyCalls :
        LET rk == calls[k].result
            rj == calls[j].result
            dk == calls[k].args.detail_factor
            dj == calls[j].args.detail_factor
        IN  (rk.eps_perc # -1 /\ rj.eps_perc # -1) =>
                /\ rk.eps_perc \in 2000..30000
                /\ Clip(dk.v, 1, 50) < Clip(dj.v, 1, 50) => rk.eps_perc > rj.eps_perc

-----------------------------------------------------------------------------
(* Properties of triangulate_mesh (SpecTriangulate) *)

TriangulateCalls == {k \in DOMAIN calls : calls[k].fn = "triangulate_mesh"}

\* the call gets as far as choosing the options of the backend: the library
\* is there, the points are at least 3 and the density is a number
C10_ReachesOptions(a) ==
    /\ tr # "unavailable"
    /\ Len(a.pts_simplified.pts) >= 3
    /\ a.internal_vertex_density.num

\* internal_vertex_density > 0 and width > 0 and height > 0
C10_DensityAndSize(a) == a.internal_vertex_density.v > 0 /\ a.w > 0 /\ a.h > 0

\* density * density_scaling_factor
C10_Divisor(a) == a.internal_vertex_density.v * params["density_scaling_factor"].v

\* max(min_triangle_area, (width * height) / (density * density_scaling_factor))
C10_Area(a) ==
    PyMax(Float(params["min_triangle_area"].v, 1), Float(a.w * a.h, C10_Divisor(a)))

\* C10 as stated: triangulate_mesh applies a maximum-area constraint if and
\* only if internal_vertex_density > 0, width > 0 and height > 0, its value
\* then being max(min_triangle_area, width*height / (density *
\* density_scaling_factor)); in every other case the backend is called with
\* the plain PSLG option.
C10_ConstraintIffDensityAndSize ==
    \A k \in TriangulateCalls :
        LET a == calls[k].args
            r == calls[k].result
        IN  C10_ReachesOptions(a) =>
                IF C10_DensityAndSize(a)
                THEN /\ r.called
                     /\ ~IsNone(r.tri_opts.a)
                     /\ C10_Divisor(a) # 0
                     /\ r.tri_opts.a = FormatF10(C10_Area(a))
                ELSE r.called /\ r.tri_opts = PlainOpts

\* C10 (amended): with numeric parameters, triangulate_mesh applies a
\* maximum-area constraint if and only if internal_vertex_density > 0,
\* width > 0, height > 0, density * density_scaling_factor is not 0 and
\* max(min_triangle_area, width*height / (density * density_scaling_factor))
\* is positive; the constraint is that maximum printed with ten decimals.
\* When density, width and height are positive and density *
\* density_scaling_factor is 0, the call returns None without calling the
\* backend; in every other case the backend is called with the plain PSLG
\* option.
C10_ConstraintRule ==
    \A k \in TriangulateCalls :
        LET a == calls[k].args
            r == calls[k].result
        IN  C10_ReachesOptions(a) =>
                CASE C10_DensityAndSize(a) /\ C10_Divisor(a) = 0 ->
                        ~r.called /\ IsNone(r.val)
                  [] C10_DensityAndSize(a) /\ C10_Divisor(a) # 0
                        /\ FloatLess(Float(0, 1), C10_Area(a)) ->
                        /\ r.called
                        /\ r.tri_opts = [p |-> TRUE, a |-> FormatF10(C10_Area(a))]
                  [] OTHER -> r.called /\ r.tri_opts = PlainOpts

\* a call with positive density, width and height, under a scaling factor
\* of -1 and a least area of 0, went to the backend with the plain option
\* and gave a mesh
C10_Witness ==
    \E k \in TriangulateCalls :
        LET a == calls[k].args
            r == calls[k].result
        IN  /\ C10_ReachesOptions(a)
            /\ C10_DensityAndSize(a)
            /\ params["density_scaling_factor"].v = -1
            /\ params["min_triangle_area"].v = 0
            /\ r.called
            /\ r.tri_opts = PlainOpts
            /\ ~IsNone(r.val)

\* the number of triangles of the mesh a call returned
C11_Triangles(r) == Len(r.val.triangles)

\* two calls that differ in the density only, the second with the higher one
C11_DensityRaised(k, j) ==
    /\ calls[k].args.pts_simplified = calls[j].args.pts_simplified
    /\ calls[k].args.w = calls[j].args.w
    /\ calls[k].args.h = calls[j].args.h
    /\ calls[k].args.internal_vertex_density.num
    /\ calls[j].args.internal_vertex_density.num
    /\ calls[k].args.internal_vertex_density.v < calls[j].args.internal_vertex_density.v

\* C11: for fixed image dimensions, a fixed simplified contour and all other
\* parameters fixed, raising internal_vertex_density never lowers the number
\* of triangles of the resulting mesh: where the lower density gives a mesh,
\* the higher one gives a mesh of at least as many triangles (also from
\* density 0 to a positive one, and where the area is held at
\* min_triangle_area).
C11_DensityNeverLowersTriangles ==
    \A k, j \in TriangulateCalls :
        (C11_DensityRaised(k, j) /\ ~IsNone(calls[k].result.val)) =>
            /\ ~IsNone(calls[j].result.val)
            /\ C11_Triangles(calls[k].result) <= C11_Triangles(calls[j].result)

\* the same, for the processors whose density_scaling_factor is not 0
C11_HoldsForNonZeroScaling ==
    params["density_scaling_factor"].v # 0 => C11_DensityNeverLowersTriangles

\* the triangle count does rise with the density under a scaling factor of 1
C11_CountRises ==
    \E k, j \in TriangulateCalls :
        /\ C11_DensityRaised(k, j)
        /\ ~IsNone(calls[k].result.val) /\ ~IsNone(calls[j].result.val)
        /\ C11_Triangles(calls[k].result) < C11_Triangles(calls[j].result)

\* what the backend answers to the call: tr.triangulate on the points of
\* the call with the options the call chose
C12_Backend(k) ==
    tr_triangulate(tr, calls[k].args.pts_simplified.pts, calls[k].result.tri_opts)

\* the failures C12 lists: the backend is unavailable, the input has fewer
\* than 3 points, the backend raises, or it returns no vertices, no
\* triangles, fewer than 3 vertices or zero triangles
C12_ListedFailure(k) ==
    \/ tr = "unavailable"
    \/ Len(calls[k].args.pts_simplified.pts) < 3
    \/ C12_Backend(k).raised
    \/ "vertices" \notin C12_Backend(k).val.keys
    \/ "triangles" \notin C12_Backend(k).val.keys
    \/ Len(C12_Backend(k).val.vertices) < 3
    \/ Len(C12_Backend(k).val.triangles) = 0

\* a returned mesh is the backend's answer, with 3 vertices and 1 triangle
\* at least
C12_WholeMesh(k) ==
    /\ ~IsNone(calls[k].result.val)
    /\ calls[k].result.called
    /\ calls[k].result.val.vertices = C12_Backend(k).val.vertices
    /\ calls[k].result.val.triangles = C12_Backend(k).val.triangles
    /\ Len(calls[k].result.val.vertices) >= 3
    /\ Len(calls[k].result.val.triangles) >= 1

\* C12: triangulate_mesh returns None, never a partial mesh, whenever the
\* backend returns no vertices, no triangles, fewer than 3 vertices or zero
\* triangles, when the backend raises, when the input has fewer than 3
\* points and when the backend is unavailable; in every other case it
\* returns the backend's vertices and triangles unchanged, so that a
\* successful result has at least 3 vertices and 1 triangle.
C12_NoneOrBackendMesh ==
    \A k \in TriangulateCalls :
        calls[k].args.internal_vertex_density.num =>
            IF C12_ListedFailure(k)
            THEN IsNone(calls[k].result.val)
            ELSE C12_WholeMesh(k)

\* the part of C12 that holds of every call: the listed failures give None,
\* and whatever is returned is None or the backend's whole mesh
C12_NeverPartial ==
    \A k \in TriangulateCalls :
        /\ C12_ListedFailure(k) => IsNone(calls[k].result.val)
        /\ IsNone(calls[k].result.val) \/ C12_WholeMesh(k)

\* the first N returned vertices are the N input points in their order, and
\* boundary_indices are 0 .. N-1
C13_PrefixKept(k) ==
    LET pts == calls[k].args.pts_simplified.pts
        m == calls[k].result.val
    IN  /\ Len(m.vertices) >= Len(pts)
        /\ SubSeq(m.vertices, 1, Len(pts)) = pts
        /\ m.boundary_indices = [b \in 1..Len(pts) |-> b - 1]

\* C13: for every successful triangulate_mesh call on a simplified contour
\* of N >= 3 points, the first N returned vertices equal the N input points
\* in the same order, so that boundary_indices 0 .. N-1 index exactly the
\* input points; the implementation guarantees or verifies this, whatever
\* the backend answers.
C13_BoundaryIndicesAreInputPoints ==
    \A k \in TriangulateCalls :
        ~IsNone(calls[k].result.val) => C13_PrefixKept(k)

\* the same for the backends that keep the input points first and in order
C13_HoldsIfBackendKeepsOrder ==
    tr # "reordered" => C13_BoundaryIndicesAreInputPoints

\* every index of every triangle, and every boundary index, of the mesh m is
\* an index into its vertices
C14_IndexConsistent(m) ==
    /\ \A t \in DOMAIN m.triangles : \A c \in 1..3 :
          m.triangles[t][c] >= 0 /\ m.triangles[t][c] < Len(m.vertices)
    /\ \A b \in DOMAIN m.boundary_indices :
          m.boundary_indices[b] >= 0 /\ m.boundary_indices[b] < Len(m.vertices)

\* C14: every mesh returned by triangulate_mesh is index-consistent: every
\* vertex index of every triangle, and every entry of boundary_indices, is
\* smaller than the number of returned vertices.
C14_MeshIndexConsistent ==
    \A k \in TriangulateCalls :
        ~IsNone(calls[k].result.val) => C14_IndexConsistent(calls[k].result.val)

\* a mesh with an added interior vertex has been returned: 5 vertices, 4
\* triangles, 4 boundary indices
C14_Witness ==
    \E k \in TriangulateCalls :
        /\ ~IsNone(calls[k].result.val)
        /\ Len(calls[k].result.val.vertices) = 5
        /\ Len(calls[k].result.val.triangles) = 4
        /\ Len(calls[k].result.val.boundary_indices) = 4

\* the same for the meshes generate_mesh_data hands to process_image_batch
C14_ResultsIndexConsistent ==
    \A k \in DOMAIN results : C14_IndexConsistent(results[k])

-----------------------------------------------------------------------------
(* Properties of the generated mesh data (Spec) *)

\* the float f is the quotient n / d
C15_Is(f, n, d) == f.kind = "float" /\ f.n * d = n * f.d

\* C15: for every vertex (x, y) of a generated mesh of an image of width > 0
\* and height > 0, the UV emitted for it is (x / width, y / height), without
\* a Y flip, the k-th UV pair belonging to the k-th vertex; so a vertex at
\* (0, 0) has UV (0, 0) and a vertex at (width, height) has UV (1, 1).
C15_UVIsPositionOverSize ==
    \A r \in DOMAIN results :
        LET m == results[r]
        IN  (m.width > 0 /\ m.height > 0) =>
                /\ Len(m.uvs) = 2 * Len(m.vertices)
                /\ \A k \in DOMAIN m.vertices :
                      /\ C15_Is(m.uvs[2 * k - 1], m.vertices[k][1], m.width)
                      /\ C15_Is(m.uvs[2 * k], m.vertices[k][2], m.height)
                      /\ m.vertices[k] = <<0, 0>> =>
                            m.uvs[2 * k - 1].n = 0 /\ m.uvs[2 * k].n = 0
                      /\ m.vertices[k] = <<m.width, m.height>> =>
                            /\ m.uvs[2 * k - 1].n = m.uvs[2 * k - 1].d
                            /\ m.uvs[2 * k].n = m.uvs[2 * k].d

\* a returned mesh has a vertex at (0, 0), one at (width, height) and one
\* inside the image
C15_Witness ==
    \E r \in DOMAIN results :
        LET m == results[r]
        IN  /\ m.width > 0 /\ m.height > 0
            /\ \E k \in DOMAIN m.vertices : m.vertices[k] = <<0, 0>>
            /\ \E k \in DOMAIN m.vertices : m.vertices[k] = <<m.width, m.height>>
            /\ \E k \in DOMAIN m.vertices :
                  /\ m.vertices[k][1] \notin {0, m.width}
                  /\ m.vertices[k][2] \notin {0, m.height}

-----------------------------------------------------------------------------
(* Direct calls of _calculate_mesh_edges *)

\* the longest triangle list handed to _calculate_mesh_edges
MaxTriangles == 3

\* the vertex indices the triangles are made of
MeshVertexIndices == 0..3

\* index triples of three different vertices, in both orientations, written
\* from their smallest index (the rotations of a triple have the same edges)
IndexTriples ==
    {t \in MeshVertexIndices \X MeshVertexIndices \X MeshVertexIndices :
        t[1] < t[2] /\ t[1] < t[3] /\ t[2] # t[3]}

TriangleLists == UNION {[1..n -> IndexTriples] : n \in 0..MaxTriangles}

CallCalculateMeshEdges ==
    /\ pc = "direct"
    /\ calls = <<>>
    /\ \E ts \in TriangleLists :
          calls' = <<[fn |-> "_calculate_mesh_edges",
                      args |-> [triangles |-> ts,
                                num_vertices |-> Cardinality(MeshVertexIndices)],
                      result |-> _calculate_mesh_edges(ts, Cardinality(MeshVertexIndices))]>>
    /\ UNCHANGED <<svc_vars, fs, supplied, params, cv2_approx, tr, image_paths, pc, i, results,
                   frame, gm_out, log, stages, outcome>>

InitEdges ==
    /\ HarnessInit
    /\ supplied = EmptyDict
    /\ params = InitParams(supplied)
    /\ cv2_approx = "keep"
    /\ tr = "ok"

NextEdges == CallCalculateMeshEdges

SpecEdges == InitEdges /\ [][NextEdges]_vars

-----------------------------------------------------------------------------
(* Properties of _calculate_mesh_edges (SpecEdges) *)

EdgesCalls == {k \in DOMAIN calls : calls[k].fn = "_calculate_mesh_edges"}

\* the triangle t has the undirected edge {a, b}
C16_Uses(t, a, b) ==
    \E c, d \in 1..3 : c # d /\ t[c] = a /\ t[d] = b

\* the number of triangles of ts that use the edge {a, b}
C16_Users(ts, a, b) == Cardinality({k \in DOMAIN ts : C16_Uses(ts[k], a, b)})

\* how often the pair (a, b) stands in the flat list [v1, v2, v1, v2, ...]
C16_Times(flat, a, b) ==
    Cardinality({k \in 1..(Len(flat) \div 2) : flat[2 * k - 1] = a /\ flat[2 * k] = b})

\* C16: _calculate_mesh_edges partitions the undirected edges of the
\* triangle list: every edge of every triangle, as (min index, max index),
\* stands exactly once in exactly one of the two outputs, in boundary_edges
\* if and only if exactly one triangle uses it and in internal_edges if and
\* only if two or more triangles use it; no pair that is an edge of no
\* triangle, and no pair with the larger index first, stands in either.
C16_EdgesPartitioned ==
    \A k \in EdgesCalls :
        LET ts == calls[k].args.triangles
            r == calls[k].result
        IN  /\ Len(r.boundary_edges) % 2 = 0
            /\ Len(r.internal_edges) % 2 = 0
            /\ \A a, b \in MeshVertexIndices :
                  LET users == IF a < b THEN C16_Users(ts, a, b) ELSE 0
                  IN  /\ C16_Times(r.boundary_edges, a, b) = (IF users = 1 THEN 1 ELSE 0)
                      /\ C16_Times(r.internal_edges, a, b) = (IF users >= 2 THEN 1 ELSE 0)

\* a list of three triangles around the edge {0, 1}, which two of them meet
\* as 0 -> 1 and one as 1 -> 0, has been classified: {0, 1} is internal once
\* and there are boundary edges
C16_Witness ==
    \E k \in EdgesCalls :
        /\ Len(calls[k].args.triangles) = 3
        /\ C16_Users(calls[k].args.triangles, 0, 1) = 3
        /\ \E t, u \in DOMAIN calls[k].args.triangles :
              /\ calls[k].args.triangles[t] = <<0, 1, 2>>
              /\ calls[k].args.triangles[u] = <<0, 3, 1>>
        /\ C16_Times(calls[k].result.internal_edges, 0, 1) = 1
        /\ Len(calls[k].result.boundary_edges) > 0

-----------------------------------------------------------------------------
(* Properties of the edges of a triangulated contour (SpecTriangulate) *)

\* the edge classification of the mesh a triangulate_mesh call returned
C17_Edges(k) ==
    _calculate_mesh_edges(calls[k].result.val.triangles,
                          Len(calls[k].result.val.vertices))

\* C17: for a simple polygon of N contour points triangulated without an
\* area constraint (internal_vertex_density = 0), the edge classification of
\* the resulting mesh gives exactly N boundary edges, and each contour
\* segment (i, (i+1) mod N) is a boundary edge exactly once.
C17_ContourIsBoundary ==
    \A k \in TriangulateCalls :
        LET a == calls[k].args
            N == Len(a.pts_simplified.pts)
        IN  (a.internal_vertex_density = Num(0) /\ ~IsNone(calls[k].result.val)) =>
                /\ Len(C17_Edges(k).boundary_edges) = 2 * N
                /\ \A s \in 0..(N - 1) :
                      C16_Times(C17_Edges(k).boundary_edges,
                                Min(s, (s + 1) % N), Max(s, (s + 1) % N)) = 1

\* the pentagon has been triangulated without an area constraint: three
\* triangles, two internal edges
C17_Witness ==
    \E k \in TriangulateCalls :
        /\ calls[k].args.internal_vertex_density = Num(0)
        /\ Len(calls[k].args.pts_simplified.pts) = 5
        /\ ~IsNone(calls[k].result.val)
        /\ calls[k].result.tri_opts = PlainOpts
        /\ Len(calls[k].result.val.triangles) = 3
        /\ Len(C17_Edges(k).internal_edges) = 4

-----------------------------------------------------------------------------
(* Properties of repeated runs and of the parameters (Spec) *)

\* C18: generate_mesh_data carries no state from run to run: two runs of one
\* processor on the same image with the same parameters, whatever runs lie
\* between them, end the same way (both fail, at the same stage, or both
\* succeed), and two successes have the same number of vertices, the same
\* number of triangles and the same UV values.
C18_SameImageSameOutcome ==
    \A k, j \in DOMAIN image_paths :
        (k < j /\ Ended(k) /\ Ended(j) /\ image_paths[k] = image_paths[j]) =>
            /\ outcome[k].how = outcome[j].how
            /\ outcome[k].at = outcome[j].at
            /\ outcome[k].how = "ok" =>
                  /\ Len(outcome[k].surfaced.vertices) = Len(outcome[j].surfaced.vertices)
                  /\ Len(outcome[k].surfaced.triangles) = Len(outcome[j].surfaced.triangles)
                  /\ outcome[k].surfaced.uvs = outcome[j].surfaced.uvs

\* the first and the third run of a batch were on the same image and gave a
\* mesh, and the run between them was on another image and failed
C18_Witness ==
    /\ Len(image_paths) >= 3
    /\ Ended(3)
    /\ image_paths[1] = image_paths[3]
    /\ image_paths[2] # image_paths[1]
    /\ outcome[1].how = "ok"
    /\ outcome[2].how = "failed"
    /\ outcome[3].how = "ok"
    /\ Len(outcome[3].surfaced.uvs) > 0

-----------------------------------------------------------------------------
(* Construction of a processor *)

\* keys a caller supplies: two keys of DEFAULT_PARAMS and two that are not
ConstructorKeys == {"detail_factor", "min_triangle_area", "foo", "image_path"}

\* values a caller supplies: two numbers and a value that is no number
ConstructorValues == {Num(20), Num(0), NonNum}

\* the dictionaries given to the constructor (None is treated as the empty
\* dictionary is)
ConstructorDicts ==
    UNION {[ks -> ConstructorValues] : ks \in SUBSET ConstructorKeys}

ConstructProcessor ==
    /\ pc = "new"
    /\ \E given \in ConstructorDicts :
          /\ supplied' = given
          /\ params' = Construct(given).params
          /\ log' = log \o Construct(given).log
    /\ pc' = "constructed"
    /\ UNCHANGED <<svc_vars, fs, cv2_approx, tr, image_paths, i, results, frame, gm_out, stages,
                   outcome, calls>>

InitConstruct ==
    /\ fs = Files
    /\ NoService
    /\ supplied = EmptyDict
    /\ params = EmptyDict
    /\ cv2_approx = "keep"
    /\ tr = "ok"
    /\ image_paths = <<>>
    /\ pc = "new"
    /\ i = 0
    /\ results = <<>>
    /\ frame = NoFrame
    /\ gm_out = Returned(None, <<>>)
    /\ log = <<>>
    /\ stages = <<>>
    /\ outcome = <<>>
    /\ calls = <<>>

NextConstruct == ConstructProcessor

SpecConstruct == InitConstruct /\ [][NextConstruct]_vars

\* the warnings logged by the constructor
C19_Warnings == {k \in DOMAIN log : log[k].level = "WARNING" /\ log[k].who = "__init__"}

\* C19: constructing a processor with any parameter dictionary yields params
\* whose keys are exactly the recognized keys: a recognized key that was
\* supplied has the supplied value, a recognized key that was not has its
\* default, every unrecognized key is dropped, and a warning is logged if
\* and only if an unrecognized key was supplied.
C19_ParamsAreDefaultsOverridden ==
    pc = "constructed" =>
        /\ DOMAIN params = DOMAIN DEFAULT_PARAMS
        /\ \A k \in DOMAIN DEFAULT_PARAMS :
              params[k] = (IF k \in DOMAIN supplied THEN supplied[k] ELSE DEFAULT_PARAMS[k])
        /\ (C19_Warnings # {}) <=> (\E k \in DOMAIN supplied : k \notin DOMAIN DEFAULT_PARAMS)
        /\ Cardinality(C19_Warnings) <= 1

\* a processor was constructed from a recognized key with a value that is no
\* number and an unrecognized key
C19_Witness ==
    /\ pc = "constructed"
    /\ DOMAIN supplied = {"detail_factor", "foo"}
    /\ supplied["detail_factor"] = NonNum
    /\ params["detail_factor"] = NonNum
    /\ params["min_triangle_area"] = Num(1)
    /\ C19_Warnings # {}

-----------------------------------------------------------------------------
(* The batch with a caller that writes into the params_used of a result it *)
(* was given                                                               *)

\* the value the caller writes
CallerValue == Num(99)

\* d["detail_factor"] = 0.099
CallerChange(d) == [d EXCEPT !["detail_factor"] = CallerValue]

\* the caller changes the params_used dict of one returned result: every
\* holder of that dict object sees the change
CallerChangesParamsUsed ==
    /\ pc = "returned"
    /\ \E k \in DOMAIN results :
          LET ref == results[k].params_used.ref
          IN  /\ results[k].params_used.items["detail_factor"] # CallerValue
              /\ results' = [j \in DOMAIN results |->
                                IF results[j].params_used.ref = ref
                                THEN [results[j] EXCEPT !.params_used.items = CallerChange(@)]
                                ELSE results[j]]
              /\ params' = IF ref = SelfParamsRef THEN CallerChange(params) ELSE params
    /\ UNCHANGED <<svc_vars, fs, supplied, cv2_approx, tr, image_paths, pc, i, frame, gm_out, log,
                   stages, outcome, calls>>

NextWithCaller ==
    \/ Next
    \/ CallerChangesParamsUsed

SpecWithCaller == Init /\ [][NextWithCaller]_vars

\* the results whose params_used the caller has written into
C20_Changed == {k \in DOMAIN results : results[k].params_used.items # params}

\* C20: processing never changes the parameters of the processor: after any
\* runs, successful or failed, self.params is what the constructor made of
\* DEFAULT_PARAMS and the supplied dictionary; the params_used of every
\* result equals it when returned; and params_used is a copy of its own, so
\* that a caller's change of one shows in that result only, not in the
\* processor's parameters or in another result.
C20_ParamsNeverMutated ==
    /\ params = InitParams(supplied)
    /\ \A k \in DOMAIN results :
          /\ results[k].params_used.ref # SelfParamsRef
          /\ \A j \in DOMAIN results : j # k =>
                results[j].params_used.ref # results[k].params_used.ref
          /\ \/ results[k].params_used.items = params
             \/ /\ pc = "returned"
                /\ results[k].params_used.items = CallerChange(params)
    /\ pc # "returned" => C20_Changed = {}

\* the caller has written into the params_used of the first of two results
\* of a batch with a failed item; the second result still has the
\* processor's parameters
C20_Witness ==
    /\ pc = "returned"
    /\ Len(results) = 2
    /\ \E k \in DOMAIN outcome : outcome[k].how = "failed"
    /\ C20_Changed = {1}
    /\ results[1].params_used.items["detail_factor"] = CallerValue
    /\ results[2].params_used.items = params
    /\ params = InitParams(supplied)

-----------------------------------------------------------------------------
(* The generate_standard_uvs that batch_mesh_processor defines for itself   *)
(* when core.utils.mesh_utils cannot be imported, and direct calls of both  *)

\* `vertices` is a list of floats, as generate_mesh_data hands it over
\* (vertices_for_uv.flatten().tolist()).  The loop body starts with v[0],
\* and a float cannot be subscripted: the first element raises TypeError.
\* Of an empty list the loop body never runs and np.array([]) is returned.
generate_standard_uvs_fallback(vertices, width, height) ==
    IF vertices = <<>>
    THEN Returned(<<>>, <<>>)
    ELSE Raised("TypeError", <<>>)

\* flat vertex lists: empty, one vertex, an odd number of floats, and the
\* four corners of a rectangle
VertexLists == {<<>>, <<10, 20>>, <<10, 20, 50>>, Flatten(RectContourPts)}

\* (width, height): two proper sizes, and a width or height of zero or less
UVSizes == {<<100, 200>>, <<6, 8>>, <<0, 100>>, <<100, 0>>, <<-1, 5>>}

UVArgs == {[vertices |-> v, width |-> s[1], height |-> s[2]] : v \in VertexLists, s \in UVSizes}

CallGenerateStandardUVs ==
    /\ pc = "direct"
    /\ Len(calls) < MaxCalls
    /\ \E a \in UVArgs :
          LET r == generate_standard_uvs(a.vertices, a.width, a.height)
          IN  /\ calls' = Append(calls, [fn |-> "mesh_utils.generate_standard_uvs",
                                         args |-> a, result |-> r])
              /\ log' = log \o r.log
    /\ UNCHANGED <<svc_vars, fs, supplied, params, cv2_approx, tr, image_paths, pc, i,
                   results, frame, gm_out, stages, outcome>>

CallFallbackUVs ==
    /\ pc = "direct"
    /\ Len(calls) < MaxCalls
    /\ \E a \in UVArgs :
          LET r == generate_standard_uvs_fallback(a.vertices, a.width, a.height)
          IN  /\ calls' = Append(calls, [fn |-> "fallback.generate_standard_uvs",
                                         args |-> a, result |-> r])
              /\ log' = log \o r.log
    /\ UNCHANGED <<svc_vars, fs, supplied, params, cv2_approx, tr, image_paths, pc, i,
                   results, frame, gm_out, stages, outcome>>

InitUVs ==
    /\ HarnessInit
    /\ supplied = EmptyDict
    /\ params = InitParams(supplied)
    /\ cv2_approx = "keep"
    /\ tr = "ok"

NextUVs == CallGenerateStandardUVs \/ CallFallbackUVs

SpecUVs == InitUVs /\ [][NextUVs]_vars

-----------------------------------------------------------------------------
(* Properties of generate_standard_uvs (SpecUVs) *)

UtilsUVCalls == {k \in DOMAIN calls : calls[k].fn = "mesh_utils.generate_standard_uvs"}
FallbackUVCalls == {k \in DOMAIN calls : calls[k].fn = "fallback.generate_standard_uvs"}

\* C24: generate_standard_uvs returns the empty list whenever the vertex
\* list is empty or the image width or height is 0 or less.
C24_EmptyOnInvalidInput ==
    \A k \in UtilsUVCalls :
        LET a == calls[k].args
        IN  (a.vertices = <<>> \/ a.width <= 0 \/ a.height <= 0) =>
                (~calls[k].result.raised /\ calls[k].result.val = <<>>)

\* what line 39 does: for a size of 0 or less, as many zeros as there are
\* vertex coordinates, and the empty list only for the empty vertex list
C24_ZerosOnInvalidSize ==
    \A k \in UtilsUVCalls :
        LET a == calls[k].args
        IN  (a.width <= 0 \/ a.height <= 0) =>
                /\ ~calls[k].result.raised
                /\ calls[k].result.val = [n \in 1..Len(a.vertices) |-> Float(0, 1)]

\* C30: called with a flat vertex list and the image size, the fallback
\* returns what mesh_utils.generate_standard_uvs returns, and does not raise.
C30_FallbackInterchangeable ==
    \A k \in FallbackUVCalls :
        LET a == calls[k].args
        IN  /\ ~calls[k].result.raised
            /\ calls[k].result.val = generate_standard_uvs(a.vertices, a.width, a.height).val

\* the two agree on the empty vertex list only
C30_AgreeOnEmptyList ==
    \A k \in FallbackUVCalls :
        LET a == calls[k].args
        IN  a.vertices = <<>> =>
                /\ ~calls[k].result.raised
                /\ calls[k].result.val = generate_standard_uvs(a.vertices, a.width, a.height).val

-----------------------------------------------------------------------------
(* Direct calls of process_mask_for_contours and find_main_contour          *)

\* an alpha-channel mask of a w x h image
Mask(w, h, blobs) ==
    [kind |-> "ndarray", dtype |-> "uint8", ndim |-> 2, w |-> w, h |-> h, blobs |-> blobs]

\* masks handed to the two functions: no mask, an all-zero one, an opaque
\* rectangle, a half-transparent one, a single pixel beside a fainter
\* rectangle, and a small beside a larger rectangle
Masks ==
    {None,
     Mask(4, 4, <<>>),
     Mask(6, 8, <<Blob(1, 1, 4, 6, 255)>>),
     Mask(6, 8, <<Blob(1, 1, 4, 6, 128)>>),
     Mask(6, 8, <<Blob(1, 1, 1, 1, 255), Blob(3, 3, 5, 7, 100)>>),
     Mask(9, 8, <<Blob(0, 0, 2, 3, 255), Blob(4, 1, 8, 7, 255)>>)}

\* blur kernel sizes: negative, zero, one, even, odd, and no number
BlurKernelSizes == {Num(-2), Num(0), Num(1), Num(2), Num(3), Num(4), NonNum}

\* thresholds below, at the ends of, inside and above 0 .. 255, and no number
BinaryThresholds ==
    {Num(-5), Num(0), Num(27), Num(28), Num(100), Num(128), Num(255), Num(300), NonNum}

MaskArgs ==
    {[mask |-> m, blur_kernel_size |-> k, binary_threshold |-> t] :
        m \in Masks, k \in BlurKernelSizes, t \in BinaryThresholds}

\* the caller's array after the call: the function works on mask.copy() and
\* on the arrays cv2.blur and cv2.threshold return, and writes to no other
MaskAfterCall(mask) == mask

CallProcessMaskForContours ==
    /\ pc = "direct"
    /\ calls = <<>>
    /\ \E a \in MaskArgs :
          LET r == process_mask_for_contours(a.mask, a.blur_kernel_size, a.binary_threshold)
          IN  /\ calls' = Append(calls, [fn |-> "process_mask_for_contours", args |-> a,
                                         result |-> r, mask_after |-> MaskAfterCall(a.mask)])
              /\ log' = log \o r.log
    /\ UNCHANGED <<svc_vars, fs, supplied, params, cv2_approx, tr, image_paths, pc, i, results,
                   frame, gm_out, stages, outcome>>

InitMask ==
    /\ HarnessInit
    /\ supplied = EmptyDict
    /\ params = InitParams(supplied)
    /\ cv2_approx = "keep"
    /\ tr = "ok"

NextMask == CallProcessMaskForContours

SpecMask == InitMask /\ [][NextMask]_vars

-----------------------------------------------------------------------------
(* Properties of process_mask_for_contours (SpecMask) *)

MaskCalls == {k \in DOMAIN calls : calls[k].fn = "process_mask_for_contours"}

\* the kernel size the blur is to use: an even size of 2 or more gives way
\* to the next odd one
C21_EffectiveKernel(k) == IF k >= 2 /\ k % 2 = 0 THEN k + 1 ELSE k

\* the threshold clamped to 0 .. 255
C21_Clamped(t) == IF t < 0 THEN 0 ELSE IF t > 255 THEN 255 ELSE t

\* the values the threshold is compared with: the blurred ones when the
\* effective kernel size is above 1, the mask's own otherwise
C21_Compared(a) ==
    LET k == C21_EffectiveKernel(a.blur_kernel_size.v)
    IN  IF k > 1 THEN cv2_blur(a.mask, k) ELSE a.mask

\* C21: for a mask and numeric arguments, process_mask_for_contours returns
\* a mask of the same size and regions whose every value is 0 or 255; a
\* value is 255 exactly when the value compared (blurred with the effective
\* kernel size when that is above 1, where an even size of 2 or more counts
\* as the next odd one; unblurred when the size is 1 or less) is strictly
\* greater than the threshold clamped to 0 .. 255; and the mask handed in
\* is the same after the call.
C21_BinaryMask ==
    \A k \in MaskCalls :
        LET a == calls[k].args
            r == calls[k].result
        IN  (~IsNone(a.mask) /\ a.blur_kernel_size.num /\ a.binary_threshold.num) =>
                /\ ~r.raised
                /\ ~IsNone(r.val)
                /\ r.val.w = a.mask.w /\ r.val.h = a.mask.h
                /\ r.val.dtype = "uint8" /\ r.val.ndim = 2
                /\ Len(r.val.blobs) = Len(a.mask.blobs)
                /\ \A n \in 1..Len(a.mask.blobs) :
                      /\ r.val.blobs[n].alpha \in {0, 255}
                      /\ [r.val.blobs[n] EXCEPT !.alpha = 0] = [a.mask.blobs[n] EXCEPT !.alpha = 0]
                      /\ (r.val.blobs[n].alpha = 255) <=>
                            (C21_Compared(a).blobs[n].alpha > C21_Clamped(a.binary_threshold.v))
                /\ calls[k].mask_after = a.mask

\* an even kernel size of 2 blurs with 3: the single pixel of 255 is averaged
\* to 28, not above the threshold of 28, while the 3 x 5 rectangle of 100 is
\* kept
C21_Witness ==
    \E k \in MaskCalls :
        /\ calls[k].args.blur_kernel_size = Num(2)
        /\ calls[k].args.binary_threshold = Num(28)
        /\ calls[k].args.mask = Mask(6, 8, <<Blob(1, 1, 1, 1, 255), Blob(3, 3, 5, 7, 100)>>)
        /\ ~calls[k].result.raised
        /\ calls[k].result.val.blobs[1].alpha = 0
        /\ calls[k].result.val.blobs[2].alpha = 255

-----------------------------------------------------------------------------
(* generate_mesh_data on one image, for images of several shapes and        *)
(* processors of several least contour areas                                *)

ShapePath == Path("in", "shape", ".png")

\* what the file holds: nothing opaque; one pixel; a 3 x 2 patch; a rectangle;
\* a small rectangle before a larger one and after it; two of one size; a
\* faint rectangle before an opaque one
Shapes ==
    {<<>>,
     <<Blob(1, 1, 1, 1, 255)>>,
     <<Blob(1, 1, 3, 2, 255)>>,
     <<Blob(1, 1, 4, 6, 255)>>,
     <<Blob(0, 0, 2, 3, 255), Blob(4, 1, 8, 7, 255)>>,
     <<Blob(0, 1, 4, 7, 255), Blob(6, 0, 8, 3, 255)>>,
     <<Blob(0, 0, 3, 3, 255), Blob(5, 4, 8, 7, 255)>>,
     <<Blob(0, 0, 4, 7, 100), Blob(6, 0, 8, 3, 255)>>}

ShapeFiles == {[p \in {ShapePath} |-> ImageFile(9, 8, s)] : s \in Shapes}

\* the least contour areas: the default of 10, 0, 2, the rectangle's own 15,
\* and a value that is no number
ContourDicts ==
    {EmptyDict} \cup
    {[k \in {"min_contour_area"} |-> v] : v \in {Num(0), Num(2), Num(15), NonNum}}

InitContour ==
    /\ fs \in ShapeFiles
    /\ NoService
    /\ supplied \in ContourDicts
    /\ params = InitParams(supplied)
    /\ cv2_approx = "keep"
    /\ tr = "ok"
    /\ image_paths = <<ShapePath>>
    /\ pc = "call"
    /\ i = 0
    /\ results = <<>>
    /\ frame = NoFrame
    /\ gm_out = Returned(None, <<>>)
    /\ log = <<>>
    /\ stages = [k \in 1..Len(image_paths) |-> <<>>]
    /\ outcome = [k \in 1..Len(image_paths) |-> Pending]
    /\ calls = <<>>

SpecContour == InitContour /\ [][Next]_vars

-----------------------------------------------------------------------------
(* Properties of find_main_contour (SpecContour) *)

\* the external contours of the mask find_main_contour was given
C22_External == cv2_findContours(frame.binary_mask)

\* contour n has at least the least area
C22_Significant(n) ==
    ContourArea2(C22_External[n].pts) >= 2 * params["min_contour_area"].v

C22_NoContourReported(k) ==
    /\ IsNone(outcome[k].surfaced)
    /\ \E n \in DOMAIN log :
          log[n] = LogRec("ERROR", "generate_mesh_data", PathName(image_paths[k]), 0,
                          FailureMessage("find_main_contour"))
    /\ (pc = "item_end" /\ i = k) => (~gm_out.raised /\ IsNone(gm_out.val))
    /\ pc = "returned" => results = <<>>

\* C22: with a numeric least area, find_main_contour gives a contour exactly
\* when an external contour of the mask has at least that area, and the
\* contour given is one of those of greatest area; otherwise it gives None,
\* and generate_mesh_data logs the failure and gives None for the image,
\* which the batch leaves out.
C22_MainContourOrFailure ==
    /\ (pc = "simplify_contour" /\ params["min_contour_area"].num) =>
          /\ ~IsNone(frame.contour)
          /\ \E n \in DOMAIN C22_External :
                /\ C22_External[n] = frame.contour
                /\ C22_Significant(n)
          /\ \A n \in DOMAIN C22_External :
                ContourArea2(C22_External[n].pts) <= ContourArea2(frame.contour.pts)
    /\ \A k \in DOMAIN outcome :
          (outcome[k].at = "find_main_contour" /\ params["min_contour_area"].num) =>
              /\ outcome[k].how = "failed"
              /\ C22_NoContourReported(k)
              /\ (pc = "item_end" /\ i = k) =>
                    \A n \in DOMAIN C22_External : ~C22_Significant(n)

\* of two contours the later, larger one is given
C22_Witness ==
    /\ pc = "simplify_contour"
    /\ Len(C22_External) = 2
    /\ frame.contour = C22_External[2]
    /\ ContourArea2(C22_External[1].pts) >= 2 * params["min_contour_area"].v
    /\ ContourArea2(C22_External[1].pts) < ContourArea2(C22_External[2].pts)

\* the file of a fully transparent image: no contour, the failure reported
\* and the image left out of the results
C22_TransparentReported ==
    /\ pc = "returned"
    /\ fs[ShapePath].blobs = <<>>
    /\ outcome[1].at = "find_main_contour"
    /\ results = <<>>

-----------------------------------------------------------------------------
(* ProgressCallback (progress_callback.py) *)

\* a callback URL; None (like the empty string) is falsy
Url(name) == [kind |-> "str", v |-> name]

\* ProgressCallback(callback_url, job_id)
ProgressCallback(callback_url, job_id) ==
    [kind |-> "ProgressCallback", callback_url |-> callback_url, job_id |-> job_id,
     last_progress |-> 0]

\* Suppressed that also holds back a change of exactly 5
SuppressedUpTo5(progress, last_progress) ==
    Abs(progress - last_progress) <= 5 /\ progress < 100

\* the test of update() that ends the call without a post
Suppressed(progress, last_progress) ==
    Abs(progress - last_progress) < 5 /\ progress < 100

\* the JSON body of a post (elapsed_time left out) and where it goes
Payload(self, progress, message, data) ==
    [url |-> self.callback_url, job_id |-> self.job_id, progress |-> progress,
     message |-> message, data |-> data]

\* update(progress, message, data): the object after the call and the post
\* attempted, if any.  `data or {}` is the data, an empty dict for None.
update(self, progress, message, data) ==
    IF IsNone(self.callback_url)
    THEN [self |-> self, post |-> <<>>]
    ELSE IF Suppressed(progress, self.last_progress)
    THEN [self |-> self, post |-> <<>>]
    ELSE [self |-> [self EXCEPT !.last_progress = progress],
          post |-> <<Payload(self, progress, message, data)>>]

complete(self, result) == update(self, 100, "Processing complete", result)

error(self, error_message) == update(self, -1, "Error", [error |-> TRUE])

\* how client.post ends: status 200, another status (a WARNING is logged),
\* or an exception (caught, an ERROR is logged)
PostAnswers == {"200", "500", "raise"}

PostLog(answer) ==
    CASE answer = "200" -> <<>>
      [] answer = "500" -> <<LogRec("WARNING", "update", <<>>, 0, "Failed to send progress update")>>
      [] answer = "raise" -> <<LogRec("ERROR", "update", <<>>, 0, "Error sending progress update")>>

\* the number of calls made on one ProgressCallback
MaxUpdates == 3

\* progress values handed to update()
Progresses == {3, 5, 8, 97, 104}

CallbackUrls == {None, Url("http://rails/progress")}

\* one call on the object: the call is recorded with last_progress as it
\* was before, and the post it attempts is sent and answered
CallOnCallback(fn, progress, r) ==
    /\ pc = "direct"
    /\ Len(calls) < MaxUpdates
    /\ cb' = r.self
    /\ calls' = Append(calls, [fn |-> fn, progress |-> progress,
                               before |-> cb.last_progress, posted |-> r.post # <<>>])
    /\ IF r.post = <<>>
       THEN UNCHANGED <<posts, log>>
       ELSE \E answer \in PostAnswers :
               /\ posts' = posts \o r.post
               /\ log' = log \o PostLog(answer)
    /\ UNCHANGED <<processor, requests, running, tmp, fs, supplied, params, cv2_approx, tr,
                   image_paths, pc, i, results, frame, gm_out, stages, outcome>>

CallUpdate ==
    \E p \in Progresses : CallOnCallback("update", p, update(cb, p, "working", EmptyDict))

CallComplete ==
    CallOnCallback("complete", 100, complete(cb, [mesh_generated |-> TRUE]))

CallError ==
    CallOnCallback("error", -1, error(cb, "Failed to load image"))

InitProgress ==
    /\ \E u \in CallbackUrls : cb = ProgressCallback(u, "job-1")
    /\ posts = <<>>
    /\ processor = None
    /\ requests = <<>>
    /\ running = 0
    /\ tmp = <<>>
    /\ fs = Files
    /\ supplied = EmptyDict
    /\ params = InitParams(supplied)
    /\ cv2_approx = "keep"
    /\ tr = "ok"
    /\ image_paths = <<>>
    /\ pc = "direct"
    /\ i = 0
    /\ results = <<>>
    /\ frame = NoFrame
    /\ gm_out = Returned(None, <<>>)
    /\ log = <<>>
    /\ stages = <<>>
    /\ outcome = <<>>
    /\ calls = <<>>

NextProgress == CallUpdate \/ CallComplete \/ CallError

SpecProgress == InitProgress /\ [][NextProgress]_vars

-----------------------------------------------------------------------------
(* Properties of ProgressCallback (SpecProgress) *)

\* the calls before call k that posted
C25_PostedBefore(k) == {j \in 1..(k - 1) : calls[j].posted}

\* the progress of the last update posted before call k, 0 when there is none
C25_LastPosted(k) ==
    IF C25_PostedBefore(k) = {} THEN 0
    ELSE calls[CHOOSE j \in C25_PostedBefore(k) :
                   \A m \in C25_PostedBefore(k) : m <= j].progress

\* C25: with a callback URL, an update of a progress below 100 is posted
\* exactly when it differs by 5 or more from the progress of the last posted
\* update (0 before the first), and one of 100 or more is always posted;
\* last_progress is the progress of the last posted update, so it changes
\* only with a post; without a callback URL nothing is posted and
\* last_progress stays 0.
C25_PostedOnSignificantChange ==
    /\ \A k \in DOMAIN calls :
          /\ calls[k].before = C25_LastPosted(k)
          /\ IF IsNone(cb.callback_url)
             THEN ~calls[k].posted
             ELSE calls[k].posted <=>
                     \/ calls[k].progress >= 100
                     \/ Abs(calls[k].progress - C25_LastPosted(k)) >= 5
    /\ cb.last_progress = C25_LastPosted(Len(calls) + 1)
    /\ Len(posts) = Cardinality({k \in DOMAIN calls : calls[k].posted})
    /\ \A n \in DOMAIN posts : posts[n].url = cb.callback_url
    /\ IsNone(cb.callback_url) => (posts = <<>> /\ cb.last_progress = 0)

\* update(3) is held back, then update(8) is posted since nothing was
\* posted before it, then update(5) is held back as 8 was the last posted
C25_Witness ==
    /\ Len(calls) = 3
    /\ calls[1].progress = 3 /\ ~calls[1].posted
    /\ calls[2].progress = 8 /\ calls[2].posted
    /\ calls[3].progress = 5 /\ ~calls[3].posted
    /\ cb.last_progress = 8

\* C26: every error() on a ProgressCallback with a callback URL attempts a
\* post of progress -1 with data error = true, whatever came before it.
C26_ErrorAlwaysPosted ==
    \A k \in DOMAIN calls :
        (calls[k].fn = "error" /\ ~IsNone(cb.callback_url)) =>
            /\ calls[k].posted
            /\ \E n \in DOMAIN posts :
                  /\ n = Cardinality({j \in 1..k : calls[j].posted})
                  /\ posts[n].progress = -1
                  /\ posts[n].data = [error |-> TRUE]

\* what the code does: error() goes through update(-1, ..), so it is posted
\* exactly when the last posted progress is 4 or more (or -6 or less)
C26_ErrorPostedUnlessThrottled ==
    \A k \in DOMAIN calls :
        (calls[k].fn = "error" /\ ~IsNone(cb.callback_url)) =>
            (calls[k].posted <=> Abs(-1 - calls[k].before) >= 5)

-----------------------------------------------------------------------------
(* MeshService (mesh_service.py): the calls of generate_mesh_from_url and   *)
(* generate_mesh_from_file running as tasks of one event loop on the one    *)
(* MeshService object of main.py                                            *)

\* the calls in flight
Requests == {1, 2}

\* bytes that are no image
Garbage == [exists |-> TRUE, decodable |-> FALSE, w |-> 0, h |-> 0, blobs |-> <<>>]

\* what a request's image is: an opaque rectangle, a fully transparent
\* image, a rectangle of alpha 100, a single opaque pixel, bytes that are
\* no image, and (for a URL) a response with an error status
ServiceImages ==
    {ImageFile(6, 8, <<Blob(1, 1, 4, 6, 255)>>),
     ImageFile(4, 4, <<>>),
     ImageFile(6, 8, <<Blob(1, 1, 4, 6, 100)>>),
     ImageFile(3, 3, <<Blob(1, 1, 1, 1, 255)>>),
     Garbage,
     NoFile}

\* the parameters of a request: those of the file endpoint of main.py, and
\* a dictionary that lowers the least contour area
EndpointParameters ==
    [k \in {"detail_factor", "alpha_threshold"} |-> Num(10)]
SmallContourParameters ==
    [k \in {"detail_factor", "alpha_threshold", "min_contour_area"} |->
        IF k = "min_contour_area" THEN Num(0) ELSE Num(10)]

\* a request: the entry point, the image, the parameters and the callback
\* URL; an upload always has its bytes
RequestInputs ==
    {x \in {[entry |-> e, image |-> img, parameters |-> pu[1], callback_url |-> pu[2]] :
                e \in {"url", "file"}, img \in ServiceImages,
                pu \in {<<EndpointParameters, Url("http://rails/progress")>>,
                        <<SmallContourParameters, None>>}} :
        ~(x.entry = "file" /\ x.image = NoFile)}

\* tempfile.NamedTemporaryFile(delete=False, suffix='.png'): a new name
TmpPath(r) == Path("tmp", <<"tmp", r>>, ".png")

\* parameters.get(key, default)
Get(parameters, key, default) ==
    IF key \in DOMAIN parameters THEN parameters[key] ELSE default

\* BatchMeshProcessor(parameters), with the call that made it
NewProcessor(parameters, r) ==
    [kind |-> "BatchMeshProcessor", owner |-> r, params |-> Construct(parameters).params]

\* the locals of a call before it starts
NewRequest(input) ==
    [entry |-> input.entry, image |-> input.image, parameters |-> input.parameters,
     callback_url |-> input.callback_url, pc |-> "start", progress |-> None,
     image_path |-> None, img |-> None, height |-> 0, width |-> 0, mask |-> None,
     contour |-> None, simplified_contour |-> None, mesh_data |-> None,
     result |-> None, ran |-> <<>>, out |-> Pending]

\* the call is the running task, or no task is running and it can resume
Turn(r) == running = 0 \/ running = r

\* os.unlink(path)
Unlink(files, path) == [q \in (DOMAIN files) \ {path} |-> files[q]]

\* the temporary files after a call ends with an exception: the finally
\* clause of generate_mesh_from_file removes the file if it exists; the
\* except clause of generate_mesh_from_url removes nothing
TmpAfterFailure(req, files) ==
    IF req.entry = "file" /\ req.image_path \in DOMAIN files
    THEN Unlink(files, req.image_path)
    ELSE files

\* the variables no step of the service changes (the records the processor
\* logs are not followed for the service)
ServiceFrame ==
    UNCHANGED <<cb, log, fs, supplied, params, cv2_approx, tr, image_paths, pc, i, results,
                frame, gm_out, stages, outcome, calls>>

\* `await progress.update(p, ..)` and then the next position: the task is
\* suspended when a post is attempted, and runs on when none is.  The posts
\* are kept per job, in the order the callback URL receives them.
Proceed(r, req, p, message, next_pc) ==
    LET u == update(req.progress, p, message, EmptyDict)
    IN  /\ requests' = [requests EXCEPT ![r] = [req EXCEPT !.progress = u.self, !.pc = next_pc]]
        /\ posts' = [posts EXCEPT ![r] = @ \o u.post]
        /\ running' = IF u.post = <<>> THEN r ELSE 0

\* an exception leaves the try statement: generate_mesh_from_url logs it,
\* awaits progress.error(..) and raises it again; generate_mesh_from_file
\* has no except clause, its finally clause runs and the exception goes on
Fail(r, req, at, type) ==
    LET e == IF req.entry = "url" THEN error(req.progress, type)
             ELSE [self |-> req.progress, post |-> <<>>]
    IN  /\ requests' = [requests EXCEPT ![r] =
                           [req EXCEPT !.progress = e.self, !.pc = "done",
                                       !.out = [how |-> "raised", at |-> at,
                                                surfaced |-> [kind |-> "Exception",
                                                              type |-> type]]]]
        /\ posts' = [posts EXCEPT ![r] = @ \o e.post]
        /\ tmp' = TmpAfterFailure(req, tmp)
        /\ running' = 0

\* generate_mesh_from_url, lines 43-48
StartFromUrl ==
    \E r \in Requests :
        LET req == requests[r]
        IN  /\ req.pc = "start" /\ req.entry = "url"
            /\ Turn(r)
            /\ processor' = NewProcessor(req.parameters, r)
            /\ Proceed(r, [req EXCEPT !.progress = ProgressCallback(req.callback_url, r)],
                       10, "Initialized mesh processor", "update20")
            /\ UNCHANGED tmp
            /\ ServiceFrame

\* line 51
DownloadingUpdate ==
    \E r \in Requests :
        LET req == requests[r]
        IN  /\ req.pc = "update20"
            /\ Turn(r)
            /\ Proceed(r, req, 20, "Downloading image", "download")
            /\ UNCHANGED <<processor, tmp>>
            /\ ServiceFrame

\* _download_image up to `await client.get(..)`: the task waits for the
\* response
DownloadRequest ==
    \E r \in Requests :
        LET req == requests[r]
        IN  /\ req.pc = "download"
            /\ Turn(r)
            /\ requests' = [requests EXCEPT ![r] = [req EXCEPT !.pc = "downloading"]]
            /\ running' = 0
            /\ UNCHANGED <<processor, tmp, posts>>
            /\ ServiceFrame

\* the response: raise_for_status() raises on an error status; otherwise the
\* content is written to a new temporary file (lines 226-231), and line 55
DownloadResponse ==
    \E r \in Requests :
        LET req == requests[r]
        IN  /\ req.pc = "downloading"
            /\ Turn(r)
            /\ IF ~req.image.exists
               THEN Fail(r, req, "_download_image", "HTTPStatusError")
               ELSE /\ tmp' = [q \in (DOMAIN tmp) \cup {TmpPath(r)} |->
                                  IF q = TmpPath(r) THEN req.image ELSE tmp[q]]
                    /\ Proceed(r, [req EXCEPT !.image_path = TmpPath(r)],
                               30, "Loading image", "load_image")
            /\ UNCHANGED processor
            /\ ServiceFrame

\* generate_mesh_from_file, lines 146-155
StartFromFile ==
    \E r \in Requests :
        LET req == requests[r]
        IN  /\ req.pc = "start" /\ req.entry = "file"
            /\ Turn(r)
            /\ tmp' = [q \in (DOMAIN tmp) \cup {TmpPath(r)} |->
                          IF q = TmpPath(r) THEN req.image ELSE tmp[q]]
            /\ processor' = NewProcessor(req.parameters, r)
            /\ Proceed(r, [req EXCEPT !.progress = ProgressCallback(req.callback_url, r),
                                      !.image_path = TmpPath(r)],
                       30, "Loading image", "load_image")
            /\ ServiceFrame

\* A stage of the pipeline run on self.processor, whichever call made it
\* (`ran` keeps the stage and the call that made the processor; 0 stands
\* for a stage that is no method of the processor): an exception or a
\* failure value leaves the try statement, and otherwise the locals are set
\* and the next update is sent.
ServiceStage(r, stage, res, failed, type, next_req, p, message, next_pc) ==
    LET req == [requests[r] EXCEPT !.ran = Append(@, [stage |-> stage, by |-> processor.owner])]
    IN  /\ IF res.raised
           THEN Fail(r, req, stage, res.val.type)
           ELSE IF failed
           THEN Fail(r, req, stage, type)
           ELSE /\ Proceed(r, [f \in DOMAIN req |->
                                  IF f \in DOMAIN next_req THEN next_req[f] ELSE req[f]],
                           p, message, next_pc)
                /\ UNCHANGED tmp
        /\ UNCHANGED processor
        /\ ServiceFrame

\* lines 56-60 and 156-161
ServiceLoadImage ==
    \E r \in Requests :
        LET req == requests[r]
            res == load_image(tmp, req.image_path)
        IN  /\ req.pc = "load_image"
            /\ Turn(r)
            /\ ServiceStage(r, "load_image", res, IsNone(res.val.img), "ValueError",
                            [img |-> res.val.img, height |-> res.val.h, width |-> res.val.w],
                            40, "Creating mask", "create_initial_mask")

\* lines 61-63 and 162-164
ServiceCreateInitialMask ==
    \E r \in Requests :
        LET req == requests[r]
            res == create_initial_mask(processor.params, req.img, req.height, req.width)
        IN  /\ req.pc = "create_initial_mask"
            /\ Turn(r)
            /\ ServiceStage(r, "create_initial_mask", res, FALSE, "",
                            [mask |-> res.val], 50, "Finding contours", "find_main_contour")

\* lines 64-68 and 165-169: the contour search on the mask as created
ServiceFindMainContour ==
    \E r \in Requests :
        LET req == requests[r]
            res == find_main_contour(processor.params, req.mask)
        IN  /\ req.pc = "find_main_contour"
            /\ Turn(r)
            /\ ServiceStage(r, "find_main_contour", res, IsNone(res.val), "ValueError",
                            [contour |-> res.val], 60, "Simplifying contour",
                            "simplify_contour")

\* lines 69-77 and 170-178
ServiceSimplifyContour ==
    \E r \in Requests :
        LET req == requests[r]
            sim == simplify_contour(cv2_approx, req.contour, req.width, req.height,
                                    Get(req.parameters, "detail_factor", Num(10)),
                                    Get(req.parameters, "concave_factor", Num(0)))
        IN  /\ req.pc = "simplify_contour"
            /\ Turn(r)
            /\ ServiceStage(r, "simplify_contour", Returned(sim, sim.log), FALSE, "",
                            [simplified_contour |-> sim.pts],
                            70, "Generating triangulation", "triangulate_mesh")

\* lines 78-89 and 179-189
ServiceTriangulateMesh ==
    \E r \in Requests :
        LET req == requests[r]
            res == triangulate_mesh(tr, processor.params, req.simplified_contour, req.width,
                                    req.height,
                                    Get(req.parameters, "internal_vertex_density", Num(0)))
        IN  /\ req.pc = "triangulate_mesh"
            /\ Turn(r)
            /\ ServiceStage(r, "triangulate_mesh", res, IsNone(res.val), "ValueError",
                            [mesh_data |-> res.val],
                            90, "Finalizing mesh data", "generate_standard_uvs")

\* the dict the service returns (lines 97-112 and 197-212)
ServiceResult(req, uvs) ==
    [kind |-> "dict",
     vertices |-> req.mesh_data.vertices,
     triangles |-> req.mesh_data.triangles,
     uvs |-> uvs,
     bounds |-> [x |-> 0, y |-> 0, width |-> req.width, height |-> req.height],
     metadata |-> [vertex_count |-> Len(req.mesh_data.vertices),
                   triangle_count |-> Len(req.mesh_data.triangles),
                   parameters |-> req.parameters]]

\* lines 91-114 and 191-214: the UVs, the result and progress.complete(..)
ServiceFinalize ==
    \E r \in Requests :
        LET req == [requests[r] EXCEPT
                       !.ran = Append(@, [stage |-> "generate_standard_uvs", by |-> 0])]
            res == generate_standard_uvs(Flatten(req.mesh_data.vertices), req.width,
                                         req.height)
            c == complete(req.progress, [mesh_generated |-> TRUE])
        IN  /\ req.pc = "generate_standard_uvs"
            /\ Turn(r)
            /\ requests' = [requests EXCEPT ![r] =
                               [req EXCEPT !.progress = c.self, !.pc = "return",
                                           !.result = ServiceResult(req, res.val)]]
            /\ posts' = [posts EXCEPT ![r] = @ \o c.post]
            /\ running' = IF c.post = <<>> THEN r ELSE 0
            /\ UNCHANGED <<processor, tmp>>
            /\ ServiceFrame

\* lines 116-119 (os.unlink, return) and 215-220 (return, the finally clause)
ServiceReturn ==
    \E r \in Requests :
        LET req == requests[r]
        IN  /\ req.pc = "return"
            /\ Turn(r)
            /\ tmp' = IF req.entry = "url" \/ req.image_path \in DOMAIN tmp
                      THEN Unlink(tmp, req.image_path)
                      ELSE tmp
            /\ requests' = [requests EXCEPT ![r] =
                               [req EXCEPT !.pc = "done",
                                           !.out = [how |-> "ok", at |-> "return",
                                                    surfaced |-> req.result]]]
            /\ running' = 0
            /\ UNCHANGED <<processor, posts>>
            /\ ServiceFrame

\* the requests that arrive together with any other one: a URL request
\* with a callback, an upload without one of a dictionary that lowers the
\* least contour area, and a URL request of the same without a callback
CompanionInputs ==
    {[entry |-> "url", image |-> ImageFile(6, 8, <<Blob(1, 1, 4, 6, 255)>>),
      parameters |-> EndpointParameters, callback_url |-> Url("http://rails/progress")],
     [entry |-> "file", image |-> ImageFile(6, 8, <<Blob(1, 1, 4, 6, 255)>>),
      parameters |-> SmallContourParameters, callback_url |-> None],
     [entry |-> "url", image |-> ImageFile(3, 3, <<Blob(1, 1, 1, 1, 255)>>),
      parameters |-> SmallContourParameters, callback_url |-> None]}

InitService ==
    /\ processor = None
    /\ \E x \in RequestInputs, y \in CompanionInputs :
          requests = [r \in Requests |-> IF r = 1 THEN NewRequest(x) ELSE NewRequest(y)]
    /\ running = 0
    /\ tmp = <<>>
    /\ cb = None
    /\ posts = [r \in Requests |-> <<>>]
    /\ fs = Files
    /\ supplied = EmptyDict
    /\ params = InitParams(supplied)
    /\ cv2_approx = "keep"
    /\ tr \in {"ok", "empty"}
    /\ image_paths = <<>>
    /\ pc = "service"
    /\ i = 0
    /\ results = <<>>
    /\ frame = NoFrame
    /\ gm_out = Returned(None, <<>>)
    /\ log = <<>>
    /\ stages = <<>>
    /\ outcome = <<>>
    /\ calls = <<>>

NextService ==
    \/ StartFromUrl
    \/ DownloadingUpdate
    \/ DownloadRequest
    \/ DownloadResponse
    \/ StartFromFile
    \/ ServiceLoadImage
    \/ ServiceCreateInitialMask
    \/ ServiceFindMainContour
    \/ ServiceSimplifyContour
    \/ ServiceTriangulateMesh
    \/ ServiceFinalize
    \/ ServiceReturn

SpecService == InitService /\ [][NextService]_vars

-----------------------------------------------------------------------------
(* Properties of MeshService (SpecService) *)

\* the calls that have returned a mesh
ServiceReturned == {r \in Requests : requests[r].out.how = "ok"}

\* C23: in every mesh the service returns, the uvs list has as many entries
\* as the vertices list.
C23_UVsMatchVertices ==
    \A r \in ServiceReturned :
        Len(requests[r].out.surfaced.uvs) = Len(requests[r].out.surfaced.vertices)

\* what the service returns: the vertices as N rows of two, the uvs as one
\* flat list of 2N floats
C23_TwoUVEntriesPerVertex ==
    \A r \in ServiceReturned :
        /\ Len(requests[r].out.surfaced.vertices) > 0
        /\ Len(requests[r].out.surfaced.uvs) = 2 * Len(requests[r].out.surfaced.vertices)

\* the methods of the processor the service calls
C27_ProcessorStages ==
    {"load_image", "create_initial_mask", "find_main_contour", "simplify_contour",
     "triangulate_mesh"}

\* C27: no call runs a stage of the pipeline on a processor that another
\* call made.
C27_OwnProcessorOnly ==
    \A r \in Requests :
        \A k \in DOMAIN requests[r].ran :
            requests[r].ran[k].stage \in C27_ProcessorStages => requests[r].ran[k].by = r

\* ... and so the parameters of the call itself decide its outcome: a call
\* that returns a mesh has a contour that reaches its own least area
C27_OwnParametersDecide ==
    \A r \in ServiceReturned :
        ~IsNone(find_main_contour(Construct(requests[r].parameters).params,
                                  requests[r].mask).val)

\* a call that never waits between storing its processor and its last stage
\* (an upload without a callback URL) runs every stage on its own processor
C27_HoldsWithoutSuspension ==
    \A r \in Requests :
        (requests[r].entry = "file" /\ IsNone(requests[r].callback_url)) =>
            \A k \in DOMAIN requests[r].ran :
                requests[r].ran[k].stage \in C27_ProcessorStages => requests[r].ran[k].by = r

\* C28: when a call of the service has ended, by a return or by an
\* exception, the temporary file it created is gone.
C28_TempFilesDeleted ==
    \A r \in Requests :
        requests[r].pc = "done" => TmpPath(r) \notin DOMAIN tmp

\* what the code does: the file is gone after every generate_mesh_from_file
\* and after a generate_mesh_from_url that returns; it stays after every
\* generate_mesh_from_url that fails once the download has succeeded
C28_DeletedUnlessUrlFails ==
    \A r \in Requests :
        requests[r].pc = "done" =>
            (TmpPath(r) \in DOMAIN tmp <=>
                /\ requests[r].entry = "url"
                /\ requests[r].out.how = "raised"
                /\ requests[r].out.at # "_download_image")

\* C29: the service runs the stages of generate_mesh_data in its order, the
\* mask filter between mask creation and contour search included, and so
\* finds a contour exactly when generate_mesh_data does.
C29_ServiceMatchesBatch ==
    \A r \in Requests :
        LET ran == requests[r].ran
        IN  /\ \A k \in 1..(Len(ran) - 1) : ran[k + 1].stage = NextStage(ran[k].stage)
            /\ (Len(ran) >= 3 /\ ran[3].by = r) =>
                  LET p == Construct(requests[r].parameters).params
                      binary_mask == process_mask_for_contours(requests[r].mask,
                                         p["blur_kernel_size"], p["binary_threshold"]).val
                  IN  (requests[r].out.at = "find_main_contour") <=>
                          IsNone(find_main_contour(p, binary_mask).val)

\* the service's stages are those of generate_mesh_data without the mask
\* filter
C29_StagesWithoutFilter ==
    \A r \in Requests :
        \A k \in 1..(Len(requests[r].ran) - 1) :
            requests[r].ran[k + 1].stage = NextStageNoFilter(requests[r].ran[k].stage)

\* a call on its own processor fails at the contour search exactly when the
\* unfiltered mask has no contour of the least area
C29_ContourOfUnfilteredMask ==
    \A r \in Requests :
        (Len(requests[r].ran) >= 3 /\ requests[r].ran[3].by = r) =>
            ((requests[r].out.at = "find_main_contour") <=>
                IsNone(find_main_contour(Construct(requests[r].parameters).params,
                                         requests[r].mask).val))

=============================================================================
